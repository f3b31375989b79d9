------------------------- MODULE PanzerHandoff_proofs -------------------------
(***************************************************************************)
(* What PanzerHandoff guarantees for any rows, tables and rewrites, when   *)
(* a table of another process never gets the address of a dead one.        *)
(*                                                                         *)
(* The argument.  A decode is tied to an address.  An engine keeps its     *)
(* object open, so its decode stays the head of what is at the address.  A *)
(* parked decode keeps nothing open: what is true of it is only that, if   *)
(* the file links to its address, the table there starts with it           *)
(* (SlotOfTable).  This thread's rewrites clear the slot, those of others  *)
(* avoid its address, and a closing engine parks a decode of its own.      *)
(*                                                                         *)
(* To implement PanzerTable (HandoffIsInvisible) all of this is hidden:    *)
(* whatever was resumed, an operation starts from the linked table.        *)
(***************************************************************************)
EXTENDS PanzerHandoff, SequenceTheorems, TLAPS

-------------------------------------------------------------------------------
Memos == [known : BOOLEAN, value : Seq(Rows)]

Slots ==
  [valid : BOOLEAN, token : Tokens, decoded : Seq(Rows),
   gen : Nat, counters : Nat, memo : Memos]

Types ==
  /\ tables \in [Tokens -> Seq(Rows)] /\ cur \in Tokens
  /\ reader \in Engine /\ writer \in Engine /\ slot \in Slots

EnginesOfTables ==
  /\ reader.open => Prefix(reader.decoded, tables[reader.token])
  /\ writer.open => Prefix(writer.decoded, tables[writer.token])

SlotOfTable == slot.valid /\ slot.token = cur => Prefix(slot.decoded, tables[cur])

\* A slice engine counts its own rows; another engine may have added more.
WriterCounts == writer.open => writer.counters = writer.nextRow

\* Without empty tables, an engine that is open has decoded something.
NothingEmpty ==
  ~EmptyPut => /\ tables[cur] # << >>
               /\ reader.open => reader.decoded # << >>

IInv ==
  /\ Types /\ EnginesOfTables /\ SlotOfTable
  /\ WriterCounts /\ SlicesContinueFile /\ NothingEmpty

-------------------------------------------------------------------------------
(***************************************************************************)
(* Prefixes.                                                               *)
(***************************************************************************)
LEMMA PrefixSelf ==
  ASSUME NEW t \in Seq(Rows)
  PROVE  Prefix(t, t)
BY SubSeqFull, LenProperties DEF Prefix

LEMMA PrefixEmpty ==
  ASSUME NEW t \in Seq(Rows)
  PROVE  Prefix(<< >>, t)
<1>1. Len(<< >>) = 0 /\ Len(t) \in Nat
  BY EmptySeq, LenProperties
<1>2. SubSeq(t, 1, Len(<< >>)) = << >>
  BY <1>1, SubSeqEmpty
<1>. QED
  BY <1>1, <1>2 DEF Prefix

LEMMA PrefixWhole ==
  ASSUME NEW t \in Seq(Rows), NEW s, Prefix(s, t), Len(s) = Len(t)
  PROVE  s = t
BY SubSeqFull DEF Prefix

LEMMA PrefixCompleted ==
  ASSUME NEW t \in Seq(Rows), NEW s \in Seq(Rows), Prefix(s, t)
  PROVE  s \o SubSeq(t, Len(s) + 1, Len(t)) = t
<1>1. Len(s) \in Nat /\ Len(t) \in Nat /\ Len(s) <= Len(t)
  BY LenProperties DEF Prefix
<1>2. SubSeq(t, 1, Len(s)) \o SubSeq(t, Len(s) + 1, Len(t)) = SubSeq(t, 1, Len(t))
  <2>1. 1 \in 1 .. Len(t) + 1 /\ Len(s) \in 1 - 1 .. Len(t) /\ Len(t) \in Len(s) .. Len(t)
    BY <1>1
  <2>. QED
    BY <2>1, ConcatAdjacentSubSeq
<1>. QED
  BY <1>2, SubSeqFull DEF Prefix

LEMMA PrefixGrows ==
  ASSUME NEW t \in Seq(Rows), NEW u \in Seq(Rows), NEW s \in Seq(Rows), Prefix(s, t)
  PROVE  Prefix(s, t \o u)
<1>1. /\ Len(s) \in Nat /\ Len(t) \in Nat /\ Len(u) \in Nat /\ Len(s) <= Len(t)
      /\ Len(t \o u) = Len(t) + Len(u) /\ t \o u \in Seq(Rows)
  BY LenProperties, ConcatProperties DEF Prefix
<1>2. CASE Len(s) = 0
  BY <1>1, <1>2, PrefixEmpty, EmptySeq
<1>3. CASE Len(s) > 0
  <2>1. SubSeq(t \o u, 1, Len(s)) = SubSeq(t, 1, Len(s))
    BY <1>1, <1>3, SubSeqOfConcat1
  <2>. QED
    BY <1>1, <2>1 DEF Prefix
<1>. QED
  BY <1>1, <1>2, <1>3

-------------------------------------------------------------------------------
(***************************************************************************)
(* What the operators on engines and slots return.                         *)
(***************************************************************************)
LEMMA ClosedIs ==
  /\ Closed \in Engine /\ ~Closed.open /\ ~Closed.valid /\ Closed.decoded = << >>
  /\ EmptySlot \in Slots /\ ~EmptySlot.valid
<1>1. (CHOOSE t \in Tokens : TRUE) \in Tokens
  BY TokensAssumption
<1>2. << >> \in Seq(Rows)
  BY EmptySeq
<1>3. NoMemo \in Memos
  BY <1>2 DEF NoMemo, Memos
<1>. QED
  BY <1>1, <1>2, <1>3 DEF Closed, EmptySlot, Engine, Slots, Memos

\* A refreshed cache: the rows it holds and their generation.
Refreshed(e, g, s) == [e EXCEPT !.valid = TRUE, !.gen = g, !.decoded = s]

LEMMA RefreshedIs ==
  ASSUME NEW e \in Engine, NEW g \in Nat, NEW s \in Seq(Rows)
  PROVE  /\ Refreshed(e, g, s) \in Engine
         /\ Refreshed(e, g, s).valid
         /\ Refreshed(e, g, s).decoded = s
         /\ Refreshed(e, g, s).open = e.open
         /\ Refreshed(e, g, s).token = e.token
         /\ Refreshed(e, g, s).nextRow = e.nextRow
         /\ Refreshed(e, g, s).counters = e.counters
BY DEF Engine, Refreshed

LEMMA DecodeIs ==
  ASSUME tables \in [Tokens -> Seq(Rows)],
         NEW e \in Engine, Prefix(e.decoded, tables[e.token])
  PROVE  LET d == Decode(e)
         IN  /\ d \in Engine /\ d.valid
             /\ d.decoded = IF e.valid THEN e.decoded ELSE tables[e.token]
             /\ d.open = e.open /\ d.token = e.token
             /\ d.nextRow = e.nextRow /\ d.counters = e.counters
<1>. DEFINE table == tables[e.token]
            n == Len(e.decoded)
            d == Decode(e)
<1>1. /\ e.token \in Tokens /\ e.decoded \in Seq(Rows) /\ e.gen \in Nat
      /\ table \in Seq(Rows)
  BY DEF Engine
<1>2. n \in Nat /\ Len(table) \in Nat /\ n <= Len(table)
  BY <1>1, LenProperties DEF Prefix
<1>3. CASE e.valid
  BY <1>3 DEF Decode
<1>4. CASE ~e.valid /\ n > 0 /\ n = Len(table)
  <2>1. d = [e EXCEPT !.valid = TRUE]
    BY <1>2, <1>4 DEF Decode
  <2>2. e.decoded = table
    BY <1>1, <1>4, PrefixWhole
  <2>. QED
    BY <1>4, <2>1, <2>2 DEF Engine
<1>5. CASE ~e.valid /\ ~(n > 0 /\ n = Len(table))
  <2>. DEFINE rows == IF n > 0 THEN e.decoded \o SubSeq(table, n + 1, Len(table)) ELSE table
  <2>1. rows = table
    BY <1>1, PrefixCompleted
  <2>2. d = [e EXCEPT !.valid = TRUE, !.gen = e.gen + 1, !.decoded = rows]
    <3>1. CASE n > 0
      <4>1. n # Len(table)
        BY <1>5, <3>1
      <4>. QED
        BY <1>2, <1>5, <3>1, <4>1 DEF Decode
    <3>2. CASE ~(n > 0)
      BY <1>2, <1>5, <3>2 DEF Decode
    <3>. QED
      BY <3>1, <3>2
  <2>3. e.gen + 1 \in Nat
    BY <1>1
  <2>4. d = [e EXCEPT !.valid = TRUE, !.gen = e.gen + 1, !.decoded = table]
    BY <2>1, <2>2
  <2>5. /\ d \in Engine /\ d.valid /\ d.decoded = table
        /\ d.open = e.open /\ d.token = e.token
        /\ d.nextRow = e.nextRow /\ d.counters = e.counters
    <3>1. d = Refreshed(e, e.gen + 1, table)
      BY <2>4 DEF Refreshed
    <3>. DEFINE g == e.gen + 1
    <3>2. g \in Nat /\ table \in Seq(Rows) /\ d = Refreshed(e, g, table)
      BY <1>1, <2>3, <3>1
    <3>. HIDE DEF d, table, g
    <3>. QED
      BY <3>2, RefreshedIs
  <2>. QED
    BY <1>5, <2>5
<1>. QED
  BY <1>3, <1>4, <1>5

\* A new engine before it looks at the slot.
Fresh(n) == [Closed EXCEPT !.open = TRUE, !.token = cur, !.nextRow = n]

LEMMA FreshIs ==
  ASSUME cur \in Tokens, NEW n \in Nat
  PROVE  /\ Fresh(n) \in Engine /\ Fresh(n).open /\ Fresh(n).token = cur
         /\ Fresh(n).decoded = << >> /\ ~Fresh(n).valid /\ Fresh(n).nextRow = n
BY ClosedIs DEF Engine, Fresh

\* An engine that took over the decode of slot s, with c as its counters.
Resumed(f, s, c, n) ==
  [f EXCEPT !.decoded = s.decoded, !.gen = s.gen, !.counters = c,
            !.memo = s.memo, !.memoGen = s.gen, !.memoRows = n]

LEMMA ResumedIs ==
  ASSUME NEW f \in Engine, NEW s \in Slots, NEW c \in Nat, NEW n \in Nat
  PROVE  /\ Resumed(f, s, c, n) \in Engine
         /\ Resumed(f, s, c, n).open = f.open
         /\ Resumed(f, s, c, n).token = f.token
         /\ Resumed(f, s, c, n).valid = f.valid
         /\ Resumed(f, s, c, n).nextRow = f.nextRow
         /\ Resumed(f, s, c, n).decoded = s.decoded
BY DEF Engine, Slots, Memos, Resumed

LEMMA AdoptIs ==
  ASSUME NEW f \in Engine, NEW s \in Slots, NEW mode
  PROVE  /\ Adopt(f, s, mode) \in Engine
         /\ Adopt(f, s, mode).open = f.open
         /\ Adopt(f, s, mode).token = f.token
         /\ Adopt(f, s, mode).valid = f.valid
         /\ Adopt(f, s, mode).nextRow = f.nextRow
         /\ Adopt(f, s, mode).decoded = s.decoded
<1>. DEFINE c == IF mode = "READ" THEN s.counters ELSE 0
            n == Len(s.decoded)
<1>1. c \in Nat /\ n \in Nat
  BY LenProperties DEF Slots
<1>2. Adopt(f, s, mode) = Resumed(f, s, c, n)
  BY Zenon DEF Adopt, Resumed
<1>. HIDE DEF c, n
<1>. QED
  BY <1>1, <1>2, ResumedIs

\* An engine whose time counters have been set.
Counted(d, c) == [d EXCEPT !.counters = c]

LEMMA CountedIs ==
  ASSUME NEW d \in Engine, NEW c \in Nat
  PROVE  /\ Counted(d, c) \in Engine
         /\ Counted(d, c).open = d.open /\ Counted(d, c).token = d.token
         /\ Counted(d, c).valid = d.valid /\ Counted(d, c).decoded = d.decoded
         /\ Counted(d, c).nextRow = d.nextRow /\ Counted(d, c).counters = c
BY DEF Engine, Counted

LEMMA RestoreIs ==
  ASSUME tables \in [Tokens -> Seq(Rows)],
         NEW e \in Engine, Prefix(e.decoded, tables[e.token]), ~e.valid
  PROVE  LET r == RestoreTimeContext(e)
         IN  /\ r \in Engine /\ r.valid
             /\ r.decoded = tables[e.token] /\ r.counters = Len(tables[e.token])
             /\ r.open = e.open /\ r.token = e.token /\ r.nextRow = e.nextRow
<1>. DEFINE d == Decode(e)
            c == Len(d.decoded)
<1>1. /\ d \in Engine /\ d.valid /\ d.decoded = tables[e.token]
      /\ d.open = e.open /\ d.token = e.token /\ d.nextRow = e.nextRow
  BY DecodeIs
<1>2. c \in Nat /\ c = Len(tables[e.token])
  BY <1>1, LenProperties DEF Engine
<1>3. RestoreTimeContext(e) = Counted(d, c)
  BY DEF RestoreTimeContext, Counted
<1>4. /\ Counted(d, c) \in Engine
      /\ Counted(d, c).open = d.open /\ Counted(d, c).token = d.token
      /\ Counted(d, c).valid = d.valid /\ Counted(d, c).decoded = d.decoded
      /\ Counted(d, c).nextRow = d.nextRow /\ Counted(d, c).counters = c
  <2>. HIDE DEF d, c
  <2>. QED
    BY <1>1, <1>2, CountedIs
<1>. QED
  BY <1>1, <1>2, <1>3, <1>4

-------------------------------------------------------------------------------
(***************************************************************************)
(* Opening an engine from a slot, and parking one in it.                   *)
(***************************************************************************)
SlotGood(s) == s.valid /\ s.token = cur => Prefix(s.decoded, tables[cur])

LEMMA OpenedIs ==
  ASSUME tables \in [Tokens -> Seq(Rows)], cur \in Tokens,
         NEW s \in Slots, SlotGood(s), NEW mode \in {"READ", "APPEND"}
  PROVE  LET o == Opened(s, mode)
         IN  /\ o \in Engine /\ o.open /\ o.token = cur
             /\ Prefix(o.decoded, tables[cur])
             /\ o.valid => o.decoded = tables[cur]
             /\ o.nextRow = Len(tables[cur])
             /\ mode = "APPEND" => o.counters = Len(tables[cur])
<1>. DEFINE n == Len(tables[cur])
            fresh == Fresh(n)
            e == IF CanAdopt(s, cur) THEN Adopt(fresh, s, mode) ELSE fresh
            o == Opened(s, mode)
<1>1. tables[cur] \in Seq(Rows) /\ n \in Nat
  BY LenProperties
<1>2. /\ fresh \in Engine /\ fresh.open /\ fresh.token = cur
      /\ fresh.decoded = << >> /\ ~fresh.valid /\ fresh.nextRow = n
  <2>. HIDE DEF n
  <2>. QED
    BY <1>1, FreshIs
<1>3. /\ e \in Engine /\ e.open /\ e.token = cur /\ ~e.valid /\ e.nextRow = n
      /\ Prefix(e.decoded, tables[cur])
  <2>1. CASE CanAdopt(s, cur)
    <3>1. Prefix(s.decoded, tables[cur])
      BY <2>1 DEF CanAdopt, SlotGood
    <3>2. e = Adopt(fresh, s, mode)
      BY <2>1
    <3>. HIDE DEF e, fresh, n
    <3>. QED
      BY <1>2, <3>1, <3>2, AdoptIs
  <2>2. CASE ~CanAdopt(s, cur)
    <3>1. e = fresh
      BY <2>2
    <3>. HIDE DEF e, fresh, n
    <3>. QED
      BY <1>1, <1>2, <3>1, PrefixEmpty
  <2>. QED
    BY <2>1, <2>2
<1>4. \/ o = e /\ mode = "READ"
      \/ o = RestoreTimeContext(e)
  BY Zenon DEF Opened, Fresh
<1>. HIDE DEF e, o, fresh, n
<1>5. CASE o = e /\ mode = "READ"
  BY <1>3, <1>5 DEF o, n
<1>6. CASE o = RestoreTimeContext(e)
  <2>1. /\ o \in Engine /\ o.valid /\ o.open /\ o.token = cur /\ o.nextRow = n
        /\ o.decoded = tables[cur] /\ o.counters = n
    BY <1>3, <1>6, RestoreIs DEF n
  <2>. QED
    BY <1>1, <2>1, PrefixSelf DEF o, n
<1>. QED
  BY <1>4, <1>5, <1>6

\* A slot that holds a decode.
Parked(t, d, g, c, m) ==
  [valid |-> TRUE, token |-> t, decoded |-> d, gen |-> g, counters |-> c, memo |-> m]

LEMMA ParkedIs ==
  ASSUME NEW t \in Tokens, NEW d \in Seq(Rows), NEW g \in Nat, NEW c \in Nat,
         NEW m \in Memos
  PROVE  /\ Parked(t, d, g, c, m) \in Slots
         /\ Parked(t, d, g, c, m).token = t /\ Parked(t, d, g, c, m).decoded = d
BY DEF Slots, Parked

LEMMA HandBackIs ==
  ASSUME NEW e \in Engine, e.open => Prefix(e.decoded, tables[e.token]),
         NEW s \in Slots, SlotGood(s), NEW mode
  PROVE  HandBack(e, s, mode) \in Slots /\ SlotGood(HandBack(e, s, mode))
<1>1. CASE ~e.open \/ e.decoded = << >>
  BY <1>1 DEF HandBack
<1>2. CASE e.open /\ e.decoded # << >>
  <2>. DEFINE c == IF mode = "READ" THEN e.counters ELSE 0
              h == HandBack(e, s, mode)
  <2>1. h = Parked(e.token, e.decoded, e.gen, c, e.memo)
    BY <1>2, Zenon DEF HandBack, Parked
  <2>2. /\ e.token \in Tokens /\ e.decoded \in Seq(Rows) /\ e.gen \in Nat
        /\ e.memo \in Memos /\ c \in Nat
    BY DEF Engine, Memos
  <2>. HIDE DEF c, h
  <2>3. h \in Slots /\ h.token = e.token /\ h.decoded = e.decoded
    BY <2>1, <2>2, ParkedIs
  <2>4. SlotGood(h)
    BY <1>2, <2>3 DEF SlotGood
  <2>. QED
    BY <2>3, <2>4 DEF h
<1>. QED
  BY <1>1, <1>2

LEMMA SlotAfterOpenIs ==
  ASSUME NEW s \in Slots, SlotGood(s)
  PROVE  SlotAfterOpen(s) \in Slots /\ SlotGood(SlotAfterOpen(s))
BY ClosedIs DEF SlotAfterOpen, SlotGood

-------------------------------------------------------------------------------
(***************************************************************************)
(* The actions, one lemma each.                                            *)
(***************************************************************************)
LEMMA InitKeeps ==
  ASSUME Init
  PROVE  IInv
<1>1. PICK x \in Rows : tables = [t \in Tokens |-> IF t = cur THEN <<x>> ELSE << >>]
  BY DEF Init
<1>2. <<x>> \in Seq(Rows) /\ << >> \in Seq(Rows) /\ <<x>> # << >>
  OBVIOUS
<1>3. Types
  <2>1. tables \in [Tokens -> Seq(Rows)]
    BY <1>1, <1>2
  <2>. QED
    BY <2>1, ClosedIs DEF Init, Types
<1>4. tables[cur] = <<x>>
  BY <1>1 DEF Init
<1>. QED
  BY <1>2, <1>3, <1>4, ClosedIs
  DEF Init, IInv, EnginesOfTables, SlotOfTable, WriterCounts, SlicesContinueFile,
      NothingEmpty

LEMMA BeginReadKeeps ==
  ASSUME IInv, BeginRead
  PROVE  IInv' /\ (reader'.decoded = tables[cur] \/ ReanchorRead)
<1>1. CASE ReanchorRead
  BY <1>1
  DEF BeginRead, IInv, Types, EnginesOfTables, SlotOfTable, WriterCounts,
      SlicesContinueFile, NothingEmpty
<1>2. CASE ~ReanchorRead
  <2>. DEFINE s == HandBack(reader, slot, "READ")
              o == Opened(s, "READ")
  <2>1. s \in Slots /\ SlotGood(s)
    BY HandBackIs DEF IInv, Types, EnginesOfTables, SlotOfTable, SlotGood
  <2>. HIDE DEF s
  <2>2. tables \in [Tokens -> Seq(Rows)] /\ cur \in Tokens
    BY DEF IInv, Types
  <2>3. /\ o \in Engine /\ o.open /\ o.token = cur /\ Prefix(o.decoded, tables[cur])
        /\ o.valid => o.decoded = tables[cur]
    BY <2>1, <2>2, OpenedIs
  <2>. HIDE DEF o
  <2>4. reader' = Decode(o) /\ slot' = SlotAfterOpen(s)
    BY <1>2 DEF BeginRead, o, s
  <2>5. /\ reader' \in Engine /\ reader'.open /\ reader'.token = cur
        /\ reader'.decoded = tables[cur]
    BY <2>2, <2>3, <2>4, DecodeIs
  <2>6. slot' \in Slots /\ SlotGood(slot')
    BY <2>1, <2>4, SlotAfterOpenIs
  <2>7. Prefix(reader'.decoded, tables[cur])
    BY <2>2, <2>5, PrefixSelf
  <2>8. UNCHANGED <<tables, cur, writer>> /\ op' = "read"
    BY DEF BeginRead
  <2>. QED
    BY <2>5, <2>6, <2>7, <2>8
    DEF IInv, Types, EnginesOfTables, SlotOfTable, WriterCounts,
        SlicesContinueFile, NothingEmpty, SlotGood
<1>. QED
  BY <1>1, <1>2

\* An engine that remembers the whole signal it was asked for.
Memoised(e, m, g, n) == [e EXCEPT !.memo = m, !.memoGen = g, !.memoRows = n]

LEMMA MemoisedIs ==
  ASSUME NEW e \in Engine, NEW m \in Memos, NEW g \in Nat, NEW n \in Nat
  PROVE  /\ Memoised(e, m, g, n) \in Engine
         /\ Memoised(e, m, g, n).open = e.open
         /\ Memoised(e, m, g, n).token = e.token
         /\ Memoised(e, m, g, n).decoded = e.decoded
BY DEF Engine, Memos, Memoised

LEMMA WholeSignalKeeps ==
  ASSUME IInv, WholeSignal
  PROVE  IInv'
<1>. DEFINE m == [known |-> TRUE, value |-> reader.decoded]
            g == reader.gen
            n == Len(reader.decoded)
<1>1. reader \in Engine /\ m \in Memos /\ g \in Nat /\ n \in Nat
  BY LenProperties DEF IInv, Types, Engine, Memos
<1>2. reader' = Memoised(reader, m, g, n)
  BY Zenon DEF WholeSignal, Memoised
<1>. HIDE DEF m, g, n
<1>3. /\ reader' \in Engine /\ reader'.open = reader.open
      /\ reader'.token = reader.token /\ reader'.decoded = reader.decoded
  BY <1>1, <1>2, MemoisedIs
<1>. QED
  BY <1>3
  DEF WholeSignal, IInv, Types, EnginesOfTables, SlotOfTable, WriterCounts,
      SlicesContinueFile, NothingEmpty

LEMMA EndReadKeeps ==
  ASSUME IInv, EndRead
  PROVE  IInv'
BY DEF EndRead, IInv, Types, EnginesOfTables, SlotOfTable, WriterCounts,
       SlicesContinueFile, NothingEmpty

LEMMA CloseReaderKeeps ==
  ASSUME IInv, CloseReader
  PROVE  IInv'
<1>1. slot' \in Slots /\ SlotGood(slot')
  BY HandBackIs DEF CloseReader, IInv, Types, EnginesOfTables, SlotOfTable, SlotGood
<1>. QED
  BY <1>1, ClosedIs
  DEF CloseReader, IInv, Types, EnginesOfTables, SlotOfTable, WriterCounts,
      SlicesContinueFile, NothingEmpty, SlotGood

LEMMA CloseWriterKeeps ==
  ASSUME IInv, CloseWriter
  PROVE  IInv'
<1>1. slot' \in Slots /\ SlotGood(slot')
  BY HandBackIs DEF CloseWriter, IInv, Types, EnginesOfTables, SlotOfTable, SlotGood
<1>. QED
  BY <1>1, ClosedIs
  DEF CloseWriter, IInv, Types, EnginesOfTables, SlotOfTable, WriterCounts,
      SlicesContinueFile, NothingEmpty, SlotGood

\* A new /index at t: the tables of the handles still open elsewhere stay.
LEMMA RecreateIs ==
  ASSUME tables \in [Tokens -> Seq(Rows)], NEW t \in Tokens, NEW rows \in Seq(Rows),
         NEW held, Recreate(t, rows, held)
  PROVE  /\ tables' \in [Tokens -> Seq(Rows)] /\ cur' = t /\ tables'[t] = rows
         /\ \A s \in Tokens : s \in held /\ s # t => tables'[s] = tables[s]
BY EmptySeq DEF Recreate

LEMMA PutKeeps ==
  ASSUME IInv, NEW rows \in Seq(Rows), Put(rows)
  PROVE  IInv'
<1>1. PICK t \in OwnTokens : Recreate(t, rows, Tokens \ OwnTokens)
  BY DEF Put
<1>2. t \in Tokens /\ (reader.open => reader.token \in Tokens \ OwnTokens /\ t # reader.token)
  BY <1>1 DEF OwnTokens, IInv, Types, Engine
<1>3. /\ tables' \in [Tokens -> Seq(Rows)] /\ cur' = t /\ tables'[t] = rows
      /\ reader.open => tables'[reader.token] = tables[reader.token]
  BY <1>1, <1>2, RecreateIs DEF IInv, Types
<1>4. /\ reader' = reader /\ writer' = Closed /\ slot' = EmptySlot /\ op' = "none"
      /\ ~EmptyPut => rows # << >>
  BY DEF Put
<1>. QED
  BY <1>2, <1>3, <1>4, ClosedIs
  DEF IInv, Types, EnginesOfTables, SlotOfTable, WriterCounts,
      SlicesContinueFile, NothingEmpty

LEMMA ForeignRewriteKeeps ==
  ASSUME IInv, ReuseAddress = FALSE, NEW rows \in Seq(Rows), ForeignRewrite(rows)
  PROVE  IInv'
<1>1. PICK t \in ForeignTokens : Recreate(t, rows, Held)
  BY DEF ForeignRewrite
<1>2. /\ t \in Tokens
      /\ reader.open => reader.token \in Held /\ t # reader.token
      /\ writer.open => writer.token \in Held /\ t # writer.token
      /\ slot.valid => t # slot.token
  BY <1>1 DEF ForeignTokens, Held
<1>3. /\ tables' \in [Tokens -> Seq(Rows)] /\ cur' = t /\ tables'[t] = rows
      /\ reader.open => tables'[reader.token] = tables[reader.token]
      /\ writer.open => tables'[writer.token] = tables[writer.token]
  <2>1. /\ tables' \in [Tokens -> Seq(Rows)] /\ cur' = t /\ tables'[t] = rows
        /\ \A s \in Tokens : s \in Held /\ s # t => tables'[s] = tables[s]
    BY <1>1, <1>2, RecreateIs DEF IInv, Types
  <2>2. reader.token \in Tokens /\ writer.token \in Tokens
    BY DEF IInv, Types, Engine
  <2>. QED
    BY <1>2, <2>1, <2>2
<1>4. /\ UNCHANGED <<reader, writer, slot>> /\ op' = "none" /\ rows # << >>
  BY DEF ForeignRewrite
<1>. QED
  BY <1>2, <1>3, <1>4
  DEF IInv, Types, EnginesOfTables, SlotOfTable, WriterCounts,
      SlicesContinueFile, NothingEmpty

\* Rows added to the table at cur leave every head of a table what it was.
LEMMA TablesGrow ==
  ASSUME tables \in [Tokens -> Seq(Rows)], cur \in Tokens, NEW rows \in Seq(Rows),
         tables' = [tables EXCEPT ![cur] = tables[cur] \o rows]
  PROVE  /\ tables' \in [Tokens -> Seq(Rows)]
         /\ tables'[cur] = tables[cur] \o rows
         /\ Len(tables'[cur]) = Len(tables[cur]) + Len(rows)
         /\ tables[cur] # << >> => tables'[cur] # << >>
         /\ \A t \in Tokens, d \in Seq(Rows) :
              Prefix(d, tables[t]) => Prefix(d, tables'[t])
<1>1. tables[cur] \o rows \in Seq(Rows) /\ tables[cur] \in Seq(Rows)
  BY ConcatProperties
<1>2. /\ tables' \in [Tokens -> Seq(Rows)] /\ tables'[cur] = tables[cur] \o rows
      /\ \A t \in Tokens : t # cur => tables'[t] = tables[t]
  BY <1>1
<1>3. /\ Len(tables[cur] \o rows) = Len(tables[cur]) + Len(rows)
      /\ Len(tables[cur]) \in Nat /\ Len(rows) \in Nat
  BY <1>1, ConcatProperties, LenProperties
<1>4. tables[cur] # << >> => tables[cur] \o rows # << >>
  BY <1>1, <1>3, EmptySeq
<1>5. ASSUME NEW t \in Tokens, NEW d \in Seq(Rows), Prefix(d, tables[t])
      PROVE  Prefix(d, tables'[t])
  <2>1. CASE t = cur
    BY <1>1, <1>2, <1>5, <2>1, PrefixGrows
  <2>2. CASE t # cur
    BY <1>2, <1>5, <2>2
  <2>. QED
    BY <2>1, <2>2
<1>. QED
  BY <1>2, <1>3, <1>4, <1>5

\* What growth leaves of the invariant, whoever added the rows.
LEMMA GrowthKeeps ==
  ASSUME IInv, NEW rows \in Seq(Rows),
         tables' = [tables EXCEPT ![cur] = tables[cur] \o rows],
         UNCHANGED <<cur, reader, slot>>, writer' \in Engine,
         writer'.open = writer.open, writer'.token = writer.token,
         writer'.decoded = writer.decoded
  PROVE  (Types /\ EnginesOfTables /\ SlotOfTable /\ NothingEmpty)'
<1>1. tables \in [Tokens -> Seq(Rows)] /\ cur \in Tokens
  BY DEF IInv, Types
<1>2. /\ tables' \in [Tokens -> Seq(Rows)]
      /\ tables[cur] # << >> => tables'[cur] # << >>
      /\ \A t \in Tokens, d \in Seq(Rows) :
           Prefix(d, tables[t]) => Prefix(d, tables'[t])
  BY <1>1, TablesGrow
<1>3. /\ reader.token \in Tokens /\ reader.decoded \in Seq(Rows)
      /\ writer.token \in Tokens /\ writer.decoded \in Seq(Rows)
      /\ slot.token \in Tokens /\ slot.decoded \in Seq(Rows)
  BY DEF IInv, Types, Engine, Slots
<1>4. EnginesOfTables'
  BY <1>2, <1>3 DEF IInv, EnginesOfTables
<1>5. SlotOfTable'
  BY <1>1, <1>2, <1>3 DEF IInv, SlotOfTable
<1>6. NothingEmpty'
  BY <1>2 DEF IInv, NothingEmpty
<1>. QED
  BY <1>1, <1>2, <1>4, <1>5, <1>6 DEF IInv, Types

\* A slice engine after a flush of rows.
Flushed(e, n, c, v) == [e EXCEPT !.nextRow = n, !.counters = c, !.valid = v]

LEMMA FlushedIs ==
  ASSUME NEW e \in Engine, NEW n \in Nat, NEW c \in Nat, NEW v \in BOOLEAN
  PROVE  /\ Flushed(e, n, c, v) \in Engine
         /\ Flushed(e, n, c, v).open = e.open
         /\ Flushed(e, n, c, v).token = e.token
         /\ Flushed(e, n, c, v).decoded = e.decoded
         /\ Flushed(e, n, c, v).nextRow = n
         /\ Flushed(e, n, c, v).counters = c
BY DEF Engine, Flushed

LEMMA EndSliceKeeps ==
  ASSUME IInv, NEW rows \in Seq(Rows), EndSlice(rows)
  PROVE  IInv'
<1>. DEFINE n == writer.nextRow + Len(rows)
            c == writer.counters + Len(rows)
            v == writer.valid /\ rows = << >>
<1>1. /\ tables' = [tables EXCEPT ![cur] = tables[cur] \o rows]
      /\ UNCHANGED <<cur, reader, slot>> /\ op' = "none"
      /\ writer.open /\ writer \in Engine /\ writer.counters = writer.nextRow
  BY DEF EndSlice, IInv, SlicesContinueFile, Types, WriterCounts
<1>2. n \in Nat /\ c \in Nat /\ n = c
  BY <1>1, LenProperties DEF Engine
<1>3. v \in BOOLEAN
  BY Zenon
<1>4. writer' = Flushed(writer, n, c, v)
  BY Zenon DEF EndSlice, Flushed
<1>. HIDE DEF n, c, v
<1>5. /\ writer' \in Engine /\ writer'.open = writer.open
      /\ writer'.token = writer.token /\ writer'.decoded = writer.decoded
      /\ writer'.nextRow = n /\ writer'.counters = c
  BY <1>1, <1>2, <1>3, <1>4 DEF Engine, Flushed
<1>6. (Types /\ EnginesOfTables /\ SlotOfTable /\ NothingEmpty)'
  BY <1>1, <1>5, GrowthKeeps
<1>. QED
  BY <1>1, <1>2, <1>5, <1>6 DEF IInv, WriterCounts, SlicesContinueFile

LEMMA ForeignAppendKeeps ==
  ASSUME IInv, NEW x \in Rows, ForeignAppend(x)
  PROVE  IInv'
<1>1. tables[cur] \in Seq(Rows) /\ <<x>> \in Seq(Rows) /\ writer \in Engine
  BY DEF IInv, Types
<1>2. Append(tables[cur], x) = tables[cur] \o <<x>>
  BY <1>1, AppendIsConcat
<1>3. /\ tables' = [tables EXCEPT ![cur] = tables[cur] \o <<x>>]
      /\ UNCHANGED <<cur, reader, writer, slot>> /\ op' = "none"
  BY <1>2 DEF ForeignAppend
<1>4. (Types /\ EnginesOfTables /\ SlotOfTable /\ NothingEmpty)'
  BY <1>1, <1>3, GrowthKeeps
<1>. QED
  BY <1>3, <1>4 DEF IInv, WriterCounts, SlicesContinueFile

LEMMA BeginSliceKeeps ==
  ASSUME IInv, BeginSlice
  PROVE  IInv'
<1>1. CASE ReanchorAppend
  BY <1>1
  DEF BeginSlice, ReanchorAppend, IInv, Types, EnginesOfTables, SlotOfTable,
      WriterCounts, SlicesContinueFile, NothingEmpty
<1>2. CASE ~ReanchorAppend
  <2>. DEFINE o == Opened(slot, "APPEND")
  <2>1. /\ tables \in [Tokens -> Seq(Rows)] /\ cur \in Tokens
        /\ slot \in Slots /\ SlotGood(slot)
    BY DEF IInv, Types, SlotOfTable, SlotGood
  <2>2. /\ o \in Engine /\ o.open /\ o.token = cur /\ Prefix(o.decoded, tables[cur])
        /\ o.nextRow = Len(tables[cur]) /\ o.counters = Len(tables[cur])
    BY <2>1, OpenedIs
  <2>3. slot' \in Slots /\ SlotGood(slot')
    <3>1. SlotAfterOpen(slot) \in Slots /\ SlotGood(SlotAfterOpen(slot))
      BY <2>1, SlotAfterOpenIs
    <3>2. slot' = HandBack(writer, SlotAfterOpen(slot), "APPEND")
      BY <1>2 DEF BeginSlice
    <3>3. HandBack(writer, SlotAfterOpen(slot), "APPEND") \in Slots
      BY <3>1, HandBackIs DEF IInv, Types, EnginesOfTables
    <3>4. SlotGood(HandBack(writer, SlotAfterOpen(slot), "APPEND"))
      BY <3>1, HandBackIs DEF IInv, Types, EnginesOfTables
    <3>. QED
      BY <3>2, <3>3, <3>4
  <2>4. writer' = o /\ UNCHANGED <<tables, cur, reader>> /\ op' = "write"
    BY <1>2 DEF BeginSlice
  <2>. HIDE DEF o
  <2>. QED
    BY <2>2, <2>3, <2>4
    DEF IInv, Types, EnginesOfTables, SlotOfTable, WriterCounts,
        SlicesContinueFile, NothingEmpty, SlotGood
<1>. QED
  BY <1>1, <1>2

LEMMA LookUpNodeKeeps ==
  ASSUME IInv, LookUpNode
  PROVE  IInv'
<1>1. /\ tables \in [Tokens -> Seq(Rows)] /\ cur \in Tokens
      /\ writer \in Engine /\ writer.open /\ writer.token = cur /\ ~writer.valid
      /\ Prefix(writer.decoded, tables[writer.token])
      /\ writer' = Decode(writer) /\ UNCHANGED <<tables, cur, reader, slot, op>>
  BY DEF IInv, Types, EnginesOfTables, SlicesContinueFile, LookUpNode
<1>2. /\ writer' \in Engine /\ writer'.decoded = tables[cur]
      /\ writer'.open = writer.open /\ writer'.token = writer.token
      /\ writer'.nextRow = writer.nextRow /\ writer'.counters = writer.counters
  BY <1>1, DecodeIs
<1>3. Prefix(writer'.decoded, tables[cur])
  BY <1>1, <1>2, PrefixSelf
<1>. QED
  BY <1>1, <1>2, <1>3
  DEF IInv, Types, EnginesOfTables, SlotOfTable, WriterCounts,
      SlicesContinueFile, NothingEmpty

-------------------------------------------------------------------------------
(***************************************************************************)
(* The invariant, and what follows.                                        *)
(***************************************************************************)
LEMMA RowsOfPuts ==
  ASSUME NEW n, NEW rows \in SeqUpTo(Rows, n)
  PROVE  rows \in Seq(Rows)
BY DEF SeqUpTo

LEMMA NextKeeps ==
  ASSUME ReuseAddress = FALSE, IInv, [Next]_vars
  PROVE  IInv'
<1>1. CASE BeginRead
  BY <1>1, BeginReadKeeps
<1>2. CASE WholeSignal
  BY <1>2, WholeSignalKeeps
<1>3. CASE EndRead
  BY <1>3, EndReadKeeps
<1>4. CASE CloseReader
  BY <1>4, CloseReaderKeeps
<1>5. ASSUME NEW rows \in SeqUpTo(Rows, MaxPut), Put(rows)
      PROVE  IInv'
  BY <1>5, RowsOfPuts, PutKeeps
<1>6. CASE BeginSlice
  BY <1>6, BeginSliceKeeps
<1>7. CASE LookUpNode
  BY <1>7, LookUpNodeKeeps
<1>8. CASE CloseWriter
  BY <1>8, CloseWriterKeeps
<1>9. ASSUME NEW rows \in SeqUpTo(Rows, 1), EndSlice(rows)
      PROVE  IInv'
  BY <1>9, RowsOfPuts, EndSliceKeeps
<1>10. ASSUME NEW x \in Rows, ForeignAppend(x)
       PROVE  IInv'
  BY <1>10, ForeignAppendKeeps
<1>11. ASSUME NEW rows \in SeqUpTo(Rows, MaxPut), ForeignRewrite(rows)
       PROVE  IInv'
  BY <1>11, RowsOfPuts, ForeignRewriteKeeps
<1>12. CASE UNCHANGED vars
  BY <1>12
  DEF vars, IInv, Types, EnginesOfTables, SlotOfTable, WriterCounts,
      SlicesContinueFile, NothingEmpty
<1>. QED
  BY <1>1, <1>2, <1>3, <1>4, <1>5, <1>6, <1>7, <1>8, <1>9, <1>10, <1>11, <1>12
  DEF Next

LEMMA Invariance ==
  ASSUME ReuseAddress = FALSE
  PROVE  Spec => []IInv
<1>1. Init => IInv
  BY InitKeeps
<1>2. IInv /\ [Next]_vars => IInv'
  BY NextKeeps
<1>. QED
  BY <1>1, <1>2, PTL DEF Spec

\* What an engine holds decoded is the head of the /index it reads
\* (getLeaves, adoptIndexHandoff, reanchor).
THEOREM EnginesHoldHeads ==
  ASSUME ReuseAddress = FALSE
  PROVE  Spec => []EnginesDecodePrefix
<1>1. IInv => EnginesDecodePrefix
  BY DEF IInv, EnginesOfTables, EnginesDecodePrefix
<1>. QED
  BY <1>1, Invariance, PTL

\* A parked decode that adoptIndexHandoff lets through is the head of the
\* file's table: a rewrite never passes for growth.
THEOREM RewriteIsNoGrowth ==
  ASSUME ReuseAddress = FALSE
  PROVE  Spec => []AdoptedIsPrefix
<1>1. IInv => AdoptedIsPrefix
  BY DEF IInv, SlotOfTable, AdoptedIsPrefix, CanAdopt
<1>. QED
  BY <1>1, Invariance, PTL

\* A slice operation numbers its rows and its time steps from exactly what
\* the file holds (setWriteStrategy, restoreTimeContext).
THEOREM SlicesContinue ==
  ASSUME ReuseAddress = FALSE
  PROVE  Spec => []SlicesContinueFile
<1>1. IInv => SlicesContinueFile
  BY DEF IInv
<1>. QED
  BY <1>1, Invariance, PTL

\* An engine that is kept has as many rows as the table, so it has the table.
LEMMA BeginReadSeesAll ==
  ASSUME IInv, EmptyPut = FALSE, BeginRead
  PROVE  reader'.decoded = tables[cur]
<1>1. CASE ReanchorRead
  <2>1. reader' = reader
    BY <1>1 DEF BeginRead
  <2>2. /\ tables[cur] \in Seq(Rows) /\ Prefix(reader.decoded, tables[cur])
        /\ Len(reader.decoded) = Len(tables[cur])
    BY <1>1 DEF IInv, Types, EnginesOfTables, NothingEmpty, ReanchorRead
  <2>. QED
    BY <2>1, <2>2, PrefixWhole
<1>2. CASE ~ReanchorRead
  BY <1>2, BeginReadKeeps
<1>. QED
  BY <1>1, <1>2

\* When no put() leaves an empty table, a read operation starts from every
\* row of the file (select_strategy, reanchor).
THEOREM ReadsAreFresh ==
  ASSUME ReuseAddress = FALSE, EmptyPut = FALSE
  PROVE  Spec => ReadsStartFresh
<1>1. ASSUME IInv, [Next]_vars
      PROVE  [op = "none" /\ op' = "read" => reader'.decoded = tables[cur]]_vars
  <2>. SUFFICES ASSUME op = "none", op' = "read"
                PROVE  reader'.decoded = tables[cur]
    OBVIOUS
  <2>1. BeginRead
    BY <1>1
    DEF Next, vars, WholeSignal, EndRead, CloseReader, Put, BeginSlice, LookUpNode,
        CloseWriter, EndSlice, ForeignAppend, ForeignRewrite
  <2>. QED
    BY <1>1, <2>1, BeginReadSeesAll
<1>. QED
  BY <1>1, Invariance, PTL DEF Spec, ReadsStartFresh

-------------------------------------------------------------------------------
(***************************************************************************)
(* The refinement of PanzerTable.                                          *)
(***************************************************************************)
Seen == IF op = "read" THEN reader.decoded ELSE << >>

NextOf == IF op = "write" THEN writer.nextRow ELSE 0

Unseen == tables'[cur'] = tables[cur] /\ op' = op /\ Seen' = Seen /\ NextOf' = NextOf

LEMMA TableBegins == Init => Table!Init
<1>. SUFFICES ASSUME Init PROVE Table!Init
  OBVIOUS
<1>1. PICK x \in Rows : tables = [t \in Tokens |-> IF t = cur THEN <<x>> ELSE << >>]
  BY DEF Init
<1>2. tables[cur] = <<x>>
  BY <1>1 DEF Init
<1>. QED
  BY <1>2 DEF Init, Table!Init

LEMMA ReadsSeeTable ==
  ASSUME IInv, EmptyPut = FALSE,
         BeginRead \/ WholeSignal \/ EndRead \/ CloseReader \/ CloseWriter
  PROVE  Table!BeginRead \/ Table!EndRead \/ Unseen
<1>1. CASE BeginRead
  <2>1. reader'.decoded = tables[cur]
    BY <1>1, BeginReadSeesAll
  <2>. QED
    BY <1>1, <2>1 DEF BeginRead, Table!BeginRead
<1>2. CASE WholeSignal
  <2>1. reader'.decoded = reader.decoded
    BY <1>2 DEF WholeSignal, IInv, Types, Engine
  <2>. QED
    BY <1>2, <2>1 DEF WholeSignal, Unseen, Seen, NextOf
<1>3. CASE EndRead
  BY <1>3 DEF EndRead, Table!EndRead
<1>4. CASE CloseReader \/ CloseWriter
  BY <1>4 DEF CloseReader, CloseWriter, Unseen, Seen, NextOf
<1>. QED
  BY <1>1, <1>2, <1>3, <1>4

LEMMA SlicesSeeTable ==
  ASSUME IInv, IInv', BeginSlice \/ LookUpNode
  PROVE  Table!BeginSlice \/ Unseen
<1>1. CASE BeginSlice
  <2>1. writer'.nextRow = Len(tables[cur])
    BY <1>1 DEF BeginSlice, IInv, SlicesContinueFile
  <2>. QED
    BY <1>1, <2>1 DEF BeginSlice, Table!BeginSlice
<1>2. CASE LookUpNode
  <2>1. writer'.nextRow = writer.nextRow
    BY <1>2, DecodeIs
    DEF LookUpNode, IInv, Types, EnginesOfTables, SlicesContinueFile
  <2>. QED
    BY <1>2, <2>1 DEF LookUpNode, Unseen, Seen, NextOf
<1>. QED
  BY <1>1, <1>2

LEMMA EndSliceSeesTable ==
  ASSUME IInv, NEW rows \in Seq(Rows), EndSlice(rows)
  PROVE  Table!EndSlice
<1>1. /\ tables \in [Tokens -> Seq(Rows)] /\ cur \in Tokens /\ tables[cur] \in Seq(Rows)
      /\ cur' = cur /\ op = "write" /\ op' = "none"
      /\ tables' = [tables EXCEPT ![cur] = tables[cur] \o rows]
  BY DEF EndSlice, IInv, Types
<1>2. writer.nextRow = Len(tables[cur])
  BY <1>1 DEF IInv, SlicesContinueFile
<1>3. /\ tables'[cur'] = tables[cur] \o rows /\ tables[cur] \o rows \in Seq(Rows)
      /\ Prefix(tables[cur], tables[cur] \o rows)
  BY <1>1, PrefixSelf, PrefixGrows, ConcatProperties
<1>. QED
  BY <1>1, <1>2, <1>3 DEF Table!EndSlice, Prefix

LEMMA RewritesSeeTable ==
  ASSUME IInv', op = "none", UNCHANGED op
  PROVE  Table!Rewrite
BY DEF Table!Rewrite, IInv, Types

(***************************************************************************)
(* Every operation of a thread, a read or a slice, sees the table as an    *)
(* engine opened for it alone would: what reanchor(), adoptIndexHandoff()  *)
(* and handBackIndexHandoff() keep between operations cannot be told from  *)
(* keeping nothing.                                                        *)
(***************************************************************************)
THEOREM HandoffIsInvisible ==
  ASSUME ReuseAddress = FALSE, EmptyPut = FALSE
  PROVE  Spec => TableSpec
<1>1. ASSUME IInv, IInv', [Next]_vars
      PROVE  [Table!Next]_<<tables[cur], op, Seen, NextOf>>
  <2>1. CASE BeginRead \/ WholeSignal \/ EndRead \/ CloseReader \/ CloseWriter
    BY <1>1, <2>1, ReadsSeeTable DEF Table!Next, Unseen
  <2>2. CASE BeginSlice \/ LookUpNode
    BY <1>1, <2>2, SlicesSeeTable DEF Table!Next, Unseen
  <2>3. ASSUME NEW rows \in SeqUpTo(Rows, 1), EndSlice(rows)
        PROVE  Table!Next
    BY <1>1, <2>3, RowsOfPuts, EndSliceSeesTable DEF Table!Next
  <2>4. ASSUME NEW rows \in SeqUpTo(Rows, MaxPut), Put(rows) \/ ForeignRewrite(rows)
        PROVE  Table!Next
    BY <1>1, <2>4, RewritesSeeTable DEF Table!Next, Put, ForeignRewrite
  <2>5. ASSUME NEW x \in Rows, ForeignAppend(x)
        PROVE  Table!Next
    BY <1>1, <2>5, RewritesSeeTable DEF Table!Next, ForeignAppend
  <2>6. CASE UNCHANGED vars
    BY <2>6 DEF vars, Seen, NextOf
  <2>. QED
    BY <1>1, <2>1, <2>2, <2>3, <2>4, <2>5, <2>6 DEF Next
<1>2. IInv /\ IInv' /\ [Next]_vars =>
        [Table!Next]_<<tables[cur], op, IF op = "read" THEN reader.decoded ELSE << >>,
                       IF op = "write" THEN writer.nextRow ELSE 0>>
  BY <1>1 DEF Seen, NextOf
<1>. QED
  BY <1>2, Invariance, TableBegins, PTL DEF Spec, TableSpec, Table!Spec

===============================================================================
