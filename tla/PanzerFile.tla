------------------------------ MODULE PanzerFile ------------------------------
(***************************************************************************)
(* The columnar layout of one PanzerDB group in an HDF5 file, and what a   *)
(* reader makes of it.  The group holds                                    *)
(*                                                                         *)
(*   /index       one row per write, in the order the writes were made;    *)
(*   /path_table  the interned path texts a v3 row points at, or, in a     *)
(*   /paths       v2 or legacy file, one text per index row, row-aligned;  *)
(*   /data_raw_*  one append-only column of slots per element type;        *)
(*   /list_spans  the element boundaries of the string lists whose         *)
(*                elements need more than one slot, keyed by row id.       *)
(*                                                                         *)
(* Row ids and path ids start at 0 in the code and at 1 here; an offset    *)
(* counts the slots before the row's payload, as in the code.              *)
(***************************************************************************)
EXTENDS Naturals, Sequences

CONSTANTS
  Paths,      \* full paths a program writes
  NoPath,     \* the empty text of a path slot that was never written
  Columns,    \* the data_raw_* datasets
  StrColumn,  \* the one that holds strings
  Slots,      \* contents of one slot of a column
  Version     \* layout of the file: 3 (interned paths) or 2 (row-aligned paths)

ASSUME PathsAssumption == NoPath \notin Paths
ASSUME ColumnAssumption == StrColumn \in Columns
ASSUME VersionAssumption == Version \in {2, 3}

(***************************************************************************)
(* A row of /index.  "data" is leaf kind 0, the only kind backed by a      *)
(* data_raw_* column; "meta" stands for the kinds 1 (empty leaf), 2 and 3  *)
(* (static and dynamic array-of-structure nodes), written with no payload. *)
(***************************************************************************)
Row == [kind: {"data", "meta"}, col: Columns, offset: Nat, count: Nat, path: Nat]

\* One entry of /list_spans: slots slot+1 .. slot+span of row `row` hold one element.
Span == [row: Nat, slot: Nat, span: Nat]

\* The part of a span that is not its key.
Boundary == [slot: Nat, span: Nat]

(***************************************************************************)
(* The path text of row i.                                                 *)
(***************************************************************************)
PathOf(index, paths, i) ==
  LET id == IF Version = 3 THEN index[i].path ELSE i
  IN  IF id \in 1..Len(paths) THEN paths[id] ELSE NoPath

\* The dangling-row guardrail: the payload of a data row lies inside its column.
Materialised(row, data) ==
  row.kind = "data" => row.offset + row.count <= Len(data[row.col])

\* The slots of a data row; a meta row has none.
SlotsOf(row, data) ==
  IF row.kind = "data"
  THEN SubSeq(data[row.col], row.offset + 1, row.offset + row.count)
  ELSE << >>

(***************************************************************************)
(* The element boundaries loadListSpans() files under row i, in the order  *)
(* of the table (the writer emits the elements of a list in order).        *)
(***************************************************************************)
SpansOf(spans, i) ==
  LET filed[n \in 0..Len(spans)] ==
        IF n = 0 THEN << >>
        ELSE IF spans[n].row = i
             THEN Append(filed[n - 1], [slot |-> spans[n].slot, span |-> spans[n].span])
             ELSE filed[n - 1]
  IN  filed[Len(spans)]

(***************************************************************************)
(* The boundaries a reader is about to walk are those of the row: they cut *)
(* its slots into consecutive elements, without gap, overlap or overrun.   *)
(***************************************************************************)
SpansTile(bounds, count) ==
  \/ bounds = << >>
  \/ /\ bounds[1].slot = 0
     /\ bounds[Len(bounds)].slot + bounds[Len(bounds)].span = count
     /\ \A k \in 1..Len(bounds) - 1 :
           bounds[k].slot + bounds[k].span = bounds[k + 1].slot

===============================================================================
