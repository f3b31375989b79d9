------------------------------ MODULE PanzerStore ------------------------------
(***************************************************************************)
(* The storage engine of the HDF5 v2 backend: a WRITE or APPEND PanzerDB   *)
(* engine that buffers rows and pushes them dataset by dataset, a process  *)
(* that may die between two pushes, and readers that decode the table      *)
(* while it grows.                                                         *)
(*                                                                         *)
(* One step is one HDF5 call pair (extend and write) of flush(), or one    *)
(* whole call of the engine that touches memory only.  A crash keeps the   *)
(* pushes made so far, in program order, which is the durability model the *)
(* comments of flush() argue from; HDF5 itself is outside the model.       *)
(***************************************************************************)
EXTENDS PanzerFile, FiniteSets

CONSTANTS
  Payloads,   \* the contents one write can carry: sequences of slots
  Lists,      \* the spanned lists one write can carry: slots, and where elements end
  Readers,    \* READ engines of other processes
  MaxRows,    \* bound on the row ids an engine hands out
  MaxSlots,   \* bound on the slots of a column, slack included
  CanCrash,   \* whether the writing process may die
  CanReject   \* whether a write may fail inside append_index_row()

ASSUME PayloadsAssumption == Payloads \subseteq Seq(Slots)
\* The elements of a list lie end to end, and the last one ends with the list.
ASSUME ListsAssumption ==
  /\ Lists \subseteq [slots : Seq(Slots), ends : Seq(Nat)]
  /\ \A l \in Lists :
        /\ \A j \in 1..Len(l.ends) : j > 1 => l.ends[j - 1] <= l.ends[j]
        /\ l.ends # << >> => l.ends[Len(l.ends)] = Len(l.slots)
ASSUME FlagsAssumption == CanCrash \in BOOLEAN /\ CanReject \in BOOLEAN
ASSUME BoundsAssumption == MaxRows \in Nat /\ MaxSlots \in Nat

VARIABLES
  index, paths, data, spans,             \* the file
  engine,                                \* "none" | "open": the writing engine
  stage,                                 \* how far flush() has got
  rowBuf, pathBuf, dataBuf, spanBuf,     \* index_buffer, path texts, data_buffer_*, spans
  pathMap, nextPath, nextRow, diskSize,  \* path_id_map, next_*_id, disk_size_*
  reader,                                \* the READ engines
  wrote                                  \* history: what each row was asked to hold

file == <<index, paths, data, spans>>
buffers == <<rowBuf, pathBuf, dataBuf, spanBuf>>
counters == <<pathMap, nextPath, nextRow, diskSize>>
memory == <<buffers, counters>>
vars == <<file, engine, stage, memory, reader, wrote>>

Stages == {"idle", "paths", "data", "table", "spans", "index"}

NoColumns == [c \in Columns |-> << >>]
NoSizes == [c \in Columns |-> 0]
NoIds == [p \in Paths |-> 0]

\* What a write asked to be stored: the ground truth a decoded row is compared with.
Entry(path, slots, bounds) == [path |-> path, slots |-> slots, bounds |-> bounds]

Detached ==
  [on |-> FALSE, step |-> "idle", rows |-> 0, target |-> 0, texts |-> << >>,
   leaves |-> << >>, spansLoaded |-> FALSE, spans |-> << >>, overrun |-> FALSE]

Init ==
  /\ index = << >> /\ paths = << >> /\ data = NoColumns /\ spans = << >>
  /\ engine = "none" /\ stage = "idle"
  /\ rowBuf = << >> /\ pathBuf = << >> /\ dataBuf = NoColumns /\ spanBuf = << >>
  /\ pathMap = NoIds /\ nextPath = 0 /\ nextRow = 0 /\ diskSize = NoSizes
  /\ reader = [r \in Readers |-> Detached]
  /\ wrote = << >>

-------------------------------------------------------------------------------
(***************************************************************************)
(* Opening an engine.                                                      *)
(***************************************************************************)

ClearBuffers ==
  /\ rowBuf' = << >> /\ pathBuf' = << >> /\ dataBuf' = NoColumns /\ spanBuf' = << >>

ClearCounters ==
  /\ pathMap' = NoIds /\ nextPath' = 0 /\ nextRow' = 0 /\ diskSize' = NoSizes

\* Fault: WRITE deletes the tables but not /list_spans.
OpenWriteKeepsSpans ==
  /\ engine = "none" /\ Version = 3
  /\ \A r \in Readers : ~reader[r].on
  /\ engine' = "open"
  /\ index' = << >> /\ paths' = << >> /\ data' = NoColumns
  /\ ClearBuffers /\ ClearCounters
  /\ wrote' = << >>
  /\ UNCHANGED <<spans, stage, reader>>

(***************************************************************************)
(* WRITE drops every table, the span table included, and starts a v3 file. *)
(* HDF5 refuses to truncate a file another process holds open.             *)
(***************************************************************************)
OpenWrite ==
  /\ engine = "none" /\ Version = 3
  /\ \A r \in Readers : ~reader[r].on
  /\ engine' = "open"
  /\ index' = << >> /\ paths' = << >> /\ data' = NoColumns /\ spans' = << >>
  /\ ClearBuffers /\ ClearCounters
  /\ wrote' = << >>
  /\ UNCHANGED <<stage, reader>>

\* loadPathTable(): the first occurrence of a text gives it its id.
InternedIn(texts) ==
  [p \in Paths |->
     IF \E i \in 1..Len(texts) : texts[i] = p
     THEN CHOOSE i \in 1..Len(texts) :
            texts[i] = p /\ \A j \in 1..(i - 1) : texts[j] # p
     ELSE 0]

(***************************************************************************)
(* APPEND resumes from the extents of the datasets: row ids from /index,   *)
(* path ids from /path_table, offsets from each data_raw_* column.         *)
(***************************************************************************)
OpenAppend ==
  /\ engine = "none"
  /\ engine' = "open"
  /\ ClearBuffers
  /\ nextRow' = Len(index)
  /\ pathMap' = IF Version = 3 THEN InternedIn(paths) ELSE NoIds
  /\ nextPath' = IF Version = 3 THEN Len(paths) ELSE 0
  /\ diskSize' = [c \in Columns |-> Len(data[c])]
  /\ UNCHANGED <<file, stage, reader, wrote>>

-------------------------------------------------------------------------------
(***************************************************************************)
(* Writes: memory only.                                                    *)
(***************************************************************************)

\* A single-threaded engine, between two flushes; the last two conjuncts are bounds.
CanWrite ==
  /\ engine = "open" /\ stage = "idle"
  /\ nextRow < MaxRows
  /\ \A c \in Columns : diskSize[c] + Len(dataBuf[c]) < MaxSlots

\* Fault: a new path takes the id after the counter has moved.
PathIdLate(p) == IF pathMap[p] # 0 THEN pathMap[p] ELSE nextPath + 2

\* intern_path(): the id of a path, and its text queued when the path is new.
PathId(p) == IF pathMap[p] # 0 THEN pathMap[p] ELSE nextPath + 1

Intern(p) ==
  IF Version = 3
  THEN /\ pathMap' = [pathMap EXCEPT ![p] = PathId(p)]
       /\ nextPath' = IF pathMap[p] # 0 THEN nextPath ELSE nextPath + 1
       /\ pathBuf' = IF pathMap[p] # 0 THEN pathBuf ELSE Append(pathBuf, p)
  ELSE /\ pathBuf' = Append(pathBuf, p)      \* one /paths slot per row
       /\ UNCHANGED <<pathMap, nextPath>>

\* append_index_row(): the row takes the next id.
AppendIndexRow(p, kind, col, offset, count) ==
  /\ nextRow' = nextRow + 1
  /\ Intern(p)
  /\ rowBuf' = Append(rowBuf,
       [kind |-> kind, col |-> col, offset |-> offset, count |-> count,
        path |-> IF Version = 3 THEN PathId(p) ELSE 0])

\* Fault: the rows of one flush all start where the column ended on disk.
DiskOffset(c) == diskSize[c]

\* Where the next slot of column c will land: behind the file and the buffer.
NextOffset(c) == diskSize[c] + Len(dataBuf[c])

\* A numeric array, a scalar string (k slots when chunked) or a run of slices.
WriteData(p, c, s) ==
  /\ CanWrite
  /\ AppendIndexRow(p, "data", c, NextOffset(c), Len(s))
  /\ dataBuf' = [dataBuf EXCEPT ![c] = @ \o s]
  /\ wrote' = Append(wrote, Entry(p, s, << >>))
  /\ UNCHANGED <<file, engine, stage, spanBuf, diskSize, reader>>

\* An empty leaf or an array-of-structure node: no payload.
WriteMeta(p) ==
  /\ CanWrite
  /\ AppendIndexRow(p, "meta", StrColumn, 0, 0)
  /\ wrote' = Append(wrote, Entry(p, << >>, << >>))
  /\ UNCHANGED <<file, engine, stage, dataBuf, spanBuf, diskSize, reader>>

(***************************************************************************)
(* The slot element j of a list starts at, and the boundaries of all its   *)
(* elements.                                                               *)
(***************************************************************************)
StartOf(l, j) == IF j = 1 THEN 0 ELSE l.ends[j - 1]

Bounds(l) ==
  [j \in 1..Len(l.ends) |->
     [slot |-> StartOf(l, j), span |-> l.ends[j] - StartOf(l, j)]]

(***************************************************************************)
(* One slice of a string list with an element longer than a slot: the span *)
(* entries are queued under the id the row is about to get.                *)
(***************************************************************************)
WriteList(p, l) ==
  /\ CanWrite
  /\ spanBuf' = spanBuf \o
       [j \in 1..Len(l.ends) |->
          [row |-> nextRow + 1, slot |-> Bounds(l)[j].slot, span |-> Bounds(l)[j].span]]
  /\ AppendIndexRow(p, "data", StrColumn, NextOffset(StrColumn), Len(l.slots))
  /\ dataBuf' = [dataBuf EXCEPT ![StrColumn] = @ \o l.slots]
  /\ wrote' = Append(wrote, Entry(p, l.slots, Bounds(l)))
  /\ UNCHANGED <<file, engine, stage, diskSize, reader>>

(***************************************************************************)
(* append_index_row() throws after it took an id and interned the path: a  *)
(* time index or a dimension that does not fit the packed v3 columns.  The *)
(* payload is buffered already and no row describes it.                    *)
(***************************************************************************)
RejectWrite(p, c, s) ==
  /\ CanReject /\ Version = 3
  /\ CanWrite
  /\ nextRow' = nextRow + 1
  /\ Intern(p)
  /\ dataBuf' = [dataBuf EXCEPT ![c] = @ \o s]
  /\ UNCHANGED <<file, engine, stage, rowBuf, spanBuf, diskSize, reader, wrote>>

-------------------------------------------------------------------------------
(***************************************************************************)
(* flush(): payload first, /index last.  The code empties its buffers      *)
(* together after the last push; nothing looks at them in between, so each *)
(* is emptied here with its push.  The columns are pushed in a fixed order *)
(* in the code and in any order here.                                      *)
(***************************************************************************)
BeginFlush ==
  /\ engine = "open" /\ stage = "idle"
  /\ rowBuf # << >>
  /\ stage' = "paths"
  /\ UNCHANGED <<file, engine, memory, reader, wrote>>

PushPathTexts ==
  /\ paths' = paths \o pathBuf
  /\ pathBuf' = << >>

\* Fault: /index is pushed before the columns.
FlushIndexFirst ==
  /\ stage = "paths"
  /\ stage' = "data"
  /\ index' = index \o rowBuf
  /\ rowBuf' = << >>
  /\ IF Version = 2 THEN PushPathTexts ELSE UNCHANGED <<paths, pathBuf>>
  /\ UNCHANGED <<data, spans, engine, dataBuf, spanBuf, counters, reader, wrote>>

FlushRowAlignedPaths ==
  /\ stage = "paths"
  /\ stage' = "data"
  /\ IF Version = 2 THEN PushPathTexts ELSE UNCHANGED <<paths, pathBuf>>
  /\ UNCHANGED <<index, data, spans, engine, rowBuf, dataBuf, spanBuf,
                 counters, reader, wrote>>

FlushColumn(c) ==
  /\ stage = "data"
  /\ dataBuf[c] # << >>
  /\ data' = [data EXCEPT ![c] = @ \o dataBuf[c]]
  /\ diskSize' = [diskSize EXCEPT ![c] = Len(data[c]) + Len(dataBuf[c])]
  /\ dataBuf' = [dataBuf EXCEPT ![c] = << >>]
  /\ UNCHANGED <<index, paths, spans, engine, stage, rowBuf, pathBuf, spanBuf,
                 pathMap, nextPath, nextRow, reader, wrote>>

ColumnsFlushed ==
  /\ stage = "data"
  /\ \A c \in Columns : dataBuf[c] = << >>
  /\ stage' = "table"
  /\ UNCHANGED <<file, engine, memory, reader, wrote>>

FlushPathTable ==
  /\ stage = "table"
  /\ stage' = "spans"
  /\ IF Version = 3 THEN PushPathTexts ELSE UNCHANGED <<paths, pathBuf>>
  /\ UNCHANGED <<index, data, spans, engine, rowBuf, dataBuf, spanBuf,
                 counters, reader, wrote>>

\* Fault: the span buffer is cleared before it is written.
FlushListSpansEmpty ==
  /\ stage = "spans"
  /\ stage' = "index"
  /\ spanBuf' = << >>
  /\ UNCHANGED <<file, engine, rowBuf, pathBuf, dataBuf, counters, reader, wrote>>

FlushListSpans ==
  /\ stage = "spans"
  /\ stage' = "index"
  /\ spans' = spans \o spanBuf
  /\ spanBuf' = << >>
  /\ UNCHANGED <<index, paths, data, engine, rowBuf, pathBuf, dataBuf,
                 counters, reader, wrote>>

\* Fault: the rows stay buffered after the push.
FlushIndexKeepsRows ==
  /\ stage = "index"
  /\ stage' = "idle"
  /\ index' = index \o rowBuf
  /\ UNCHANGED <<paths, data, spans, engine, buffers, counters, reader, wrote>>

\* The commit marker, then the buffers are clear and the barrier H5Fflush runs.
FlushIndex ==
  /\ stage = "index"
  /\ stage' = "idle"
  /\ index' = index \o rowBuf
  /\ rowBuf' = << >>
  /\ UNCHANGED <<paths, data, spans, engine, pathBuf, dataBuf, spanBuf,
                 counters, reader, wrote>>

\* close(): flush() ran and had nothing left to commit; the buffers die with the engine.
Close ==
  /\ engine = "open" /\ stage = "idle"
  /\ rowBuf = << >>
  /\ engine' = "none"
  /\ ClearBuffers /\ ClearCounters
  /\ UNCHANGED <<file, stage, reader, wrote>>

\* The process dies: the pushes already made stay, everything in memory is gone.
Crash ==
  /\ CanCrash
  /\ engine = "open"
  /\ engine' = "none" /\ stage' = "idle"
  /\ ClearBuffers /\ ClearCounters
  /\ wrote' = SubSeq(wrote, 1, Len(index))
  /\ UNCHANGED <<file, reader>>

-------------------------------------------------------------------------------
(***************************************************************************)
(* A READ engine.  getLeaves() asks for the extent of /index first, then   *)
(* reads the path texts, and last the rows with the extents of the data    *)
(* columns.  A refresh (invalidateLeafCache) decodes only what was added.  *)
(***************************************************************************)
Attach(r) ==
  /\ ~reader[r].on
  /\ reader' = [reader EXCEPT ![r] = [Detached EXCEPT !.on = TRUE]]
  /\ UNCHANGED <<file, engine, stage, memory, wrote>>

\* The engine is closed, or its process dies of a read that overran a buffer.
Detach(r) ==
  /\ reader[r].on
  /\ reader[r].step = "idle" \/ reader[r].overrun
  /\ reader' = [reader EXCEPT ![r] = Detached]
  /\ UNCHANGED <<file, engine, stage, memory, wrote>>

ReadIndexExtent(r) ==
  /\ reader[r].on /\ reader[r].step = "idle"
  /\ Len(index) > reader[r].rows
  /\ reader' = [reader EXCEPT ![r].step = "texts", ![r].target = Len(index)]
  /\ UNCHANGED <<file, engine, stage, memory, wrote>>

\* Fault: the interned texts are counted like the rows.
TextsByRow(r) == SubSeq(paths, reader[r].rows + 1, Len(paths))

\* Fault: a refresh reads the texts from the first row again.
TextsFromStart(r) == SubSeq(paths, 1, reader[r].target)

\* The texts of the new rows, all empty: what the buffer was filled with.
NoTexts(r) == [k \in 1..(reader[r].target - reader[r].rows) |-> NoPath]

(***************************************************************************)
(* v3: the texts behind those already held.  v2: the texts of the new rows *)
(* when the extent of /paths covers them all, empty texts otherwise.       *)
(***************************************************************************)
NewTexts(r) ==
  IF Version = 3
  THEN SubSeq(paths, Len(reader[r].texts) + 1, Len(paths))
  ELSE IF Len(paths) >= reader[r].target
       THEN SubSeq(paths, reader[r].rows + 1, reader[r].target)
       ELSE NoTexts(r)

(***************************************************************************)
(* The first decode of a v2 file takes a buffer for the rows it saw and    *)
(* reads all of /paths into it.  A flush may have pushed the texts of rows *)
(* to come in between, or a crash may have left some without a row, and    *)
(* these land behind the buffer.                                           *)
(***************************************************************************)
Overruns(r) ==
  Version = 2 /\ reader[r].rows = 0 /\ Len(paths) > reader[r].target

\* What an overrun leaves of the reader is undefined: its texts, or none, or no process.
ReadPathTexts(r) ==
  /\ reader[r].on /\ reader[r].step = "texts"
  /\ \E t \in {NewTexts(r)} \cup (IF Overruns(r) THEN {NoTexts(r)} ELSE {}) :
        reader' = [reader EXCEPT ![r].step = "rows", ![r].texts = @ \o t,
                                 ![r].overrun = @ \/ Overruns(r)]
  /\ UNCHANGED <<file, engine, stage, memory, wrote>>

\* The row is decoded: its payload is in its column and, in v3, its path id has a text.
Decodable(i, texts) ==
  /\ Materialised(index[i], data)
  /\ Version = 3 => index[i].path \in 1..Len(texts)

NewLeaves(r) ==
  LET from == reader[r].rows
      texts == reader[r].texts
      leaves[i \in from..reader[r].target] ==
        IF i = from THEN << >>
        ELSE IF Decodable(i, texts)
             THEN Append(leaves[i - 1], [row |-> i, path |-> PathOf(index, texts, i)])
             ELSE leaves[i - 1]
  IN  leaves[reader[r].target]

ReadRows(r) ==
  /\ reader[r].on /\ reader[r].step = "rows"
  /\ reader' = [reader EXCEPT ![r].step = "idle", ![r].rows = reader[r].target,
                              ![r].leaves = @ \o NewLeaves(r)]
  /\ UNCHANGED <<file, engine, stage, memory, wrote>>

\* loadListSpans(): at the first spanned-list read, and once in an engine's life.
LoadListSpans(r) ==
  /\ reader[r].on /\ reader[r].step = "idle"
  /\ ~reader[r].spansLoaded
  /\ reader' = [reader EXCEPT ![r].spansLoaded = TRUE, ![r].spans = spans]
  /\ UNCHANGED <<file, engine, stage, memory, wrote>>

-------------------------------------------------------------------------------
Writes ==
  \E p \in Paths :
     \/ \E c \in Columns, s \in Payloads : WriteData(p, c, s) \/ RejectWrite(p, c, s)
     \/ WriteMeta(p)
     \/ \E l \in Lists : WriteList(p, l)

Flush ==
  \/ BeginFlush
  \/ FlushRowAlignedPaths
  \/ \E c \in Columns : FlushColumn(c)
  \/ ColumnsFlushed
  \/ FlushPathTable
  \/ FlushListSpans
  \/ FlushIndex

Reads ==
  \E r \in Readers :
     \/ Attach(r) \/ Detach(r)
     \/ ReadIndexExtent(r) \/ ReadPathTexts(r) \/ ReadRows(r)
     \/ LoadListSpans(r)

Next == OpenWrite \/ OpenAppend \/ Writes \/ Flush \/ Close \/ Crash \/ Reads

Spec == Init /\ [][Next]_vars

-------------------------------------------------------------------------------
(***************************************************************************)
(* Type invariant.  An interned id never runs ahead of the texts that are  *)
(* on file or queued.                                                      *)
(***************************************************************************)
TypeOK ==
  /\ index \in Seq(Row) /\ rowBuf \in Seq(Row)
  /\ paths \in Seq(Paths) /\ pathBuf \in Seq(Paths)
  /\ data \in [Columns -> Seq(Slots)] /\ dataBuf \in [Columns -> Seq(Slots)]
  /\ spans \in Seq(Span) /\ spanBuf \in Seq(Span)
  /\ engine \in {"none", "open"} /\ stage \in Stages
  /\ nextRow \in Nat /\ nextPath \in Nat
  /\ pathMap \in [Paths -> 0..nextPath]
  /\ diskSize \in [Columns -> Nat]

(***************************************************************************)
(* The commit marker never runs ahead of the payload: whatever push a      *)
(* crash interrupts, every row of /index has its slots inside its column   *)
(* and its path text on file, so no reader is led past the written data.   *)
(***************************************************************************)
Backed ==
  \A i \in 1..Len(index) :
     /\ Materialised(index[i], data)
     /\ Version = 3 => index[i].path \in 1..Len(paths)

(***************************************************************************)
(* No committed row ever resolves to another write's content: through      *)
(* sessions, interleaved columns, rejected writes, crashes and the slack   *)
(* they leave, row i names the path and holds the slots written for it.    *)
(***************************************************************************)
SlotsIntact ==
  \A i \in 1..Len(index) : SlotsOf(index[i], data) = wrote[i].slots

PathsIntact ==
  \A i \in 1..Len(index) : PathOf(index, paths, i) = wrote[i].path

RowsIntact == SlotsIntact /\ PathsIntact

(***************************************************************************)
(* The span table gives every committed row the element boundaries of the  *)
(* list written there, which cut exactly the slots of the row, and none to *)
(* a row that is not a spanned list, over appends and rewrites.            *)
(***************************************************************************)
SpansIntact ==
  \A i \in 1..Len(index) :
    /\ SpansOf(spans, i) = wrote[i].bounds
    /\ SpansTile(SpansOf(spans, i), index[i].count)

(***************************************************************************)
(* A reader that refreshes while the writer is mid-flush decodes exactly   *)
(* the committed rows it saw, none skipped and none torn, each under its   *)
(* own path: the extents are read in the opposite order to the pushes.     *)
(* Of a reader that has overrun a buffer nothing can be said; only the     *)
(* first decode of a v2 file does.                                         *)
(***************************************************************************)
ReaderDecodesPrefix ==
  \A r \in Readers : reader[r].step = "idle" /\ ~reader[r].overrun =>
     /\ Len(reader[r].leaves) = reader[r].rows
     /\ \A k \in 1..reader[r].rows :
           reader[r].leaves[k] = [row |-> k, path |-> wrote[k].path]

(***************************************************************************)
(* "refresh the file image, invalidate here, and every index consumer      *)
(* notices": the spans a reader holds are those of every row it decoded.   *)
(***************************************************************************)
ReaderSpansCurrent ==
  \A r \in Readers :
     (reader[r].spansLoaded /\ reader[r].step = "idle" /\ ~reader[r].overrun) =>
        \A k \in 1..reader[r].rows :
           SpansOf(reader[r].spans, k) = SpansOf(spans, k)

-------------------------------------------------------------------------------
(***************************************************************************)
(* The store implements an append-only log of writes: what a reader of the *)
(* file can decode is the committed log, what the engine would add to it   *)
(* is pending, and both are computed from the stored bytes alone.          *)
(***************************************************************************)
Decoded(rows, texts, columns, table, i) ==
  Entry(PathOf(rows, texts, i), SlotsOf(rows[i], columns), SpansOf(table, i))

CommittedLog == [i \in 1..Len(index) |-> Decoded(index, paths, data, spans, i)]

PendingLog ==
  LET rows == index \o rowBuf
      columns == [c \in Columns |-> data[c] \o dataBuf[c]]
  IN  [k \in 1..Len(rowBuf) |->
         Decoded(rows, paths \o pathBuf, columns, spans \o spanBuf, Len(index) + k)]

Log == INSTANCE PanzerLog WITH committed <- CommittedLog, pending <- PendingLog

LogSpec == Log!Spec

===============================================================================
