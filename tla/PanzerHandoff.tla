----------------------------- MODULE PanzerHandoff -----------------------------
(***************************************************************************)
(* The decoded /index outlives the engine that decoded it.                 *)
(*                                                                         *)
(* One thread works on one file through the two engines its HDF5 backend   *)
(* keeps between operations: the READ engine of the read session and the   *)
(* APPEND engine of the slice session.  An operation re-anchors the engine *)
(* its session holds, or builds another one; a closing engine parks its    *)
(* decode in the thread's slot and the next one resumes from it.  Other    *)
(* threads or processes may append to the table or rewrite it.             *)
(*                                                                         *)
(* An /index object is known by its token, the address HDF5 gave it.  An   *)
(* address is not given twice while a handle on the object is open.        *)
(* Afterwards it may be: to a table of this thread always, to a table of   *)
(* another process when the constant ReuseAddress says so.                 *)
(***************************************************************************)
EXTENDS Naturals, Sequences

CONSTANTS
  Tokens,        \* addresses HDF5 may give to an /index object
  Rows,          \* contents of a row (path, shape, time and payload)
  Signature,     \* [Rows -> (offset, count) of the row]
  MaxRows,       \* bound on the rows of a table
  MaxPut,        \* bound on the rows one rewrite lays down
  MaxRewrites,   \* bound on the rewrites of the file
  ForeignWrites, \* whether other threads or processes write the file
  ReuseAddress,  \* whether a foreign table can get the address of a dead one
  EmptyPut       \* whether a put() may leave a table with no row

ASSUME TokensAssumption == Tokens # {}
ASSUME BoundsAssumption == {MaxRows, MaxPut, MaxRewrites} \subseteq Nat
ASSUME FlagsAssumption == /\ ForeignWrites \in BOOLEAN
                          /\ ReuseAddress \in BOOLEAN
                          /\ EmptyPut \in BOOLEAN
ASSUME SignatureAssumption == Rows \subseteq DOMAIN Signature

VARIABLES
  tables,    \* [Tokens -> Seq(Rows)]: the /index objects, unlinked ones included
  cur,       \* the /index the file links to
  reader,    \* session_db of the reader
  writer,    \* panzer_db_ptr of the writer
  slot,      \* the thread's parked decode
  op,        \* the operation under way
  rewrites   \* rewrites so far

vars == <<tables, cur, reader, writer, slot, op, rewrites>>

SeqUpTo(S, n) == UNION {[1..k -> S] : k \in 0..n}

Prefix(s, t) == Len(s) <= Len(t) /\ s = SubSeq(t, 1, Len(s))

NoMemo == [known |-> FALSE, value |-> << >>]

(***************************************************************************)
(* An engine: the decoded rows (index_rows_loaded is their number), whether *)
(* the cache is valid, its generation, the dynamic array size counters, the *)
(* memoised whole signal with the state it is good for, and the next row id.*)
(***************************************************************************)
Closed ==
  [open |-> FALSE, token |-> CHOOSE t \in Tokens : TRUE, decoded |-> << >>,
   valid |-> FALSE, gen |-> 0, counters |-> 0,
   memo |-> NoMemo, memoGen |-> 0, memoRows |-> 0, nextRow |-> 0]

EmptySlot ==
  [valid |-> FALSE, token |-> CHOOSE t \in Tokens : TRUE, decoded |-> << >>,
   gen |-> 0, counters |-> 0, memo |-> NoMemo]

Init ==
  /\ cur \in Tokens
  /\ tables \in {[t \in Tokens |-> IF t = cur THEN <<x>> ELSE << >>] : x \in Rows}
  /\ reader = Closed /\ writer = Closed /\ slot = EmptySlot
  /\ op = "none" /\ rewrites = 0

-------------------------------------------------------------------------------
\* Fault: the resumed decode reads the last row it holds again.
DecodeFromLast(e) ==
  LET table == tables[e.token]
      held == Len(e.decoded)
      resume == held > 0 /\ held <= Len(table)
  IN  IF e.valid THEN e
      ELSE IF resume /\ held = Len(table) THEN [e EXCEPT !.valid = TRUE]
      ELSE [e EXCEPT !.valid = TRUE, !.gen = @ + 1,
                     !.decoded = IF resume
                                 THEN @ \o SubSeq(table, held, Len(table))
                                 ELSE table]

(***************************************************************************)
(* getLeaves(): nothing when the cache is valid; the rows added since when *)
(* the decode at hand is not longer than the table; everything otherwise.  *)
(***************************************************************************)
Decode(e) ==
  LET table == tables[e.token]
      held == Len(e.decoded)
      resume == held > 0 /\ held <= Len(table)
  IN  IF e.valid THEN e
      ELSE IF resume /\ held = Len(table) THEN [e EXCEPT !.valid = TRUE]
      ELSE [e EXCEPT !.valid = TRUE, !.gen = @ + 1,
                     !.decoded = IF resume
                                 THEN @ \o SubSeq(table, held + 1, Len(table))
                                 ELSE table]

\* restoreTimeContext(): the counters cover every decoded row (one step per row here).
RestoreTimeContext(e) ==
  LET d == Decode(e) IN [d EXCEPT !.counters = Len(d.decoded)]

\* Fault: a parked decode is known by its rows, not by the object they came from.
CanAdoptByRows(s, token) ==
  LET held == Len(s.decoded)
  IN  /\ s.valid /\ held > 0 /\ s.gen > 0
      /\ held <= Len(tables[token])
      /\ Signature[tables[token][held]] = Signature[s.decoded[held]]

\* The guards of adoptIndexHandoff(), against the object the new engine opened.
CanAdopt(s, token) ==
  LET held == Len(s.decoded)
  IN  /\ s.valid /\ held > 0 /\ s.gen > 0
      /\ s.token = token
      /\ held <= Len(tables[token])
      /\ Signature[tables[token][held]] = Signature[s.decoded[held]]

Adopt(e, s, mode) ==
  [e EXCEPT !.decoded = s.decoded, !.gen = s.gen,
            !.counters = IF mode = "READ" THEN s.counters ELSE 0,
            !.memo = s.memo, !.memoGen = s.gen, !.memoRows = Len(s.decoded)]

\* init(): a new engine on the linked /index, resuming from slot s when it may.
Opened(s, mode) ==
  LET fresh == [Closed EXCEPT !.open = TRUE, !.token = cur,
                              !.nextRow = Len(tables[cur])]
      whole == CanAdopt(s, cur) /\ Len(s.decoded) = Len(tables[cur])
      e == IF CanAdopt(s, cur) THEN Adopt(fresh, s, mode) ELSE fresh
  IN  IF whole /\ mode = "READ" THEN e ELSE RestoreTimeContext(e)

SlotAfterOpen(s) == IF CanAdopt(s, cur) THEN EmptySlot ELSE s

\* handBackIndexHandoff(): a closing engine parks what it decoded.
HandBack(e, s, mode) ==
  IF ~e.open \/ e.decoded = << >> THEN s
  ELSE [valid |-> TRUE, token |-> e.token, decoded |-> e.decoded, gen |-> e.gen,
        counters |-> IF mode = "READ" THEN e.counters ELSE 0, memo |-> e.memo]

-------------------------------------------------------------------------------
(***************************************************************************)
(* The read session.                                                       *)
(***************************************************************************)

\* Fault: a READ engine only checks which object the file links to.
ReanchorReadAny == reader.open /\ reader.token = cur

\* reanchor() of a READ engine: same object, and no row more than it decoded.
ReanchorRead ==
  /\ reader.open
  /\ reader.token = cur
  /\ reader.decoded # << >> => Len(tables[cur]) = Len(reader.decoded)

(***************************************************************************)
(* select_strategy(): keep the engine, or drop it, build another and index *)
(* its leaves (ReadIndex).                                                 *)
(***************************************************************************)
BeginRead ==
  /\ op = "none" /\ op' = "read"
  /\ IF ReanchorRead
     THEN UNCHANGED <<reader, slot>>
     ELSE LET s == HandBack(reader, slot, "READ")
          IN  /\ reader' = Decode(Opened(s, "READ"))
              /\ slot' = SlotAfterOpen(s)
  /\ UNCHANGED <<tables, cur, writer, rewrites>>

\* The memo answers when it is good for the current decode.
MemoHolds(e) ==
  /\ e.memo.known
  /\ e.memoGen = e.gen /\ e.memoRows = Len(e.decoded)

\* getWholeDynamicSignal()
WholeSignal ==
  /\ op = "read"
  /\ ~MemoHolds(reader)
  /\ reader' = [reader EXCEPT !.memo = [known |-> TRUE, value |-> reader.decoded],
                              !.memoGen = reader.gen,
                              !.memoRows = Len(reader.decoded)]
  /\ UNCHANGED <<tables, cur, writer, slot, op, rewrites>>

EndRead ==
  /\ op = "read" /\ op' = "none"
  /\ UNCHANGED <<tables, cur, reader, writer, slot, rewrites>>

CloseReader ==
  /\ op = "none" /\ reader.open
  /\ slot' = HandBack(reader, slot, "READ")
  /\ reader' = Closed
  /\ UNCHANGED <<tables, cur, writer, op, rewrites>>

-------------------------------------------------------------------------------
(***************************************************************************)
(* The write session.                                                      *)
(***************************************************************************)

Held == {e.token : e \in {x \in {reader, writer} : x.open}}

\* Where this thread's WRITE engine may land: at any address no open handle keeps.
OwnTokens == IF reader.open THEN Tokens \ {reader.token} ELSE Tokens

\* Where another process may: the address of a dead table only when it can come back.
ForeignTokens ==
  {t \in Tokens \ Held :
     ~ReuseAddress => t # cur /\ (slot.valid => t # slot.token)}

\* The file links to a new /index; an object nobody holds any more is gone.
Recreate(t, rows, held) ==
  /\ cur' = t
  /\ tables' = [s \in Tokens |-> CASE s = t -> rows
                                  [] s \in held \ {t} -> tables[s]
                                  [] OTHER -> << >>]

\* Fault: a rewrite leaves the parked decode of the file it replaces.
PutKeepsSlot(rows) ==
  /\ op = "none" /\ rewrites < MaxRewrites
  /\ rows # << >> \/ EmptyPut
  /\ \E t \in OwnTokens : Recreate(t, rows, Tokens \ OwnTokens)
  /\ writer' = Closed
  /\ rewrites' = rewrites + 1
  /\ UNCHANGED <<reader, slot, op>>

(***************************************************************************)
(* put(): the slice engine is released, the WRITE engine unlinks /index,   *)
(* clears the slot of this file, writes its rows, flushes and closes.      *)
(***************************************************************************)
Put(rows) ==
  /\ op = "none" /\ rewrites < MaxRewrites
  /\ rows # << >> \/ EmptyPut
  /\ \E t \in OwnTokens : Recreate(t, rows, Tokens \ OwnTokens)
  /\ writer' = Closed
  /\ slot' = EmptySlot
  /\ rewrites' = rewrites + 1
  /\ UNCHANGED <<reader, op>>

\* Fault: an APPEND engine only checks which object the file links to.
ReanchorAppendAny == writer.open /\ writer.token = cur

\* reanchor() of an APPEND engine: the table grew by the rows it wrote itself.
ReanchorAppend ==
  /\ writer.open
  /\ writer.token = cur
  /\ Len(tables[cur]) = writer.nextRow

(***************************************************************************)
(* setWriteStrategy(SLICE_OP): the new engine is built before the old one  *)
(* is destroyed, so the old one parks after the new one adopted.           *)
(***************************************************************************)
BeginSlice ==
  /\ op = "none" /\ op' = "write"
  /\ IF ReanchorAppend
     THEN UNCHANGED <<writer, slot>>
     ELSE /\ writer' = Opened(slot, "APPEND")
          /\ slot' = HandBack(writer, SlotAfterOpen(slot), "APPEND")
  /\ UNCHANGED <<tables, cur, reader, rewrites>>

\* beginArray() looks an existing node up: the writer decodes what was committed.
LookUpNode ==
  /\ op = "write" /\ ~writer.valid
  /\ writer' = Decode(writer)
  /\ UNCHANGED <<tables, cur, reader, slot, op, rewrites>>

\* The slices of the operation, committed by flush() at its end.
EndSlice(rows) ==
  /\ op = "write" /\ op' = "none"
  /\ Len(tables[cur]) + Len(rows) <= MaxRows
  /\ tables' = [tables EXCEPT ![cur] = @ \o rows]
  /\ writer' = [writer EXCEPT !.nextRow = @ + Len(rows),
                              !.counters = @ + Len(rows),
                              !.valid = @ /\ rows = << >>]
  /\ UNCHANGED <<cur, reader, slot, rewrites>>

CloseWriter ==
  /\ op = "none" /\ writer.open
  /\ slot' = HandBack(writer, slot, "APPEND")
  /\ writer' = Closed
  /\ UNCHANGED <<tables, cur, reader, op, rewrites>>

-------------------------------------------------------------------------------
(***************************************************************************)
(* Other threads and processes, between the operations of this thread.     *)
(***************************************************************************)

ForeignAppend(x) ==
  /\ ForeignWrites
  /\ op = "none"
  /\ Len(tables[cur]) < MaxRows
  /\ tables' = [tables EXCEPT ![cur] = Append(@, x)]
  /\ UNCHANGED <<cur, reader, writer, slot, op, rewrites>>

ForeignRewrite(rows) ==
  /\ ForeignWrites
  /\ op = "none" /\ rewrites < MaxRewrites
  /\ rows # << >>
  /\ \E t \in ForeignTokens : Recreate(t, rows, Held)
  /\ rewrites' = rewrites + 1
  /\ UNCHANGED <<reader, writer, slot, op>>

-------------------------------------------------------------------------------
Next ==
  \/ BeginRead \/ WholeSignal \/ EndRead \/ CloseReader
  \/ \E rows \in SeqUpTo(Rows, MaxPut) : Put(rows)
  \/ BeginSlice \/ LookUpNode \/ CloseWriter
  \/ \E rows \in SeqUpTo(Rows, 1) : EndSlice(rows)
  \/ \E x \in Rows : ForeignAppend(x)
  \/ \E rows \in SeqUpTo(Rows, MaxPut) : ForeignRewrite(rows)

Spec == Init /\ [][Next]_vars

-------------------------------------------------------------------------------
Engine ==
  [open : BOOLEAN, token : Tokens, decoded : Seq(Rows), valid : BOOLEAN, gen : Nat,
   counters : Nat, memo : [known : BOOLEAN, value : Seq(Rows)],
   memoGen : Nat, memoRows : Nat, nextRow : Nat]

\* Type invariant.  A decode always has a generation to be recognised by.
TypeOK ==
  /\ tables \in [Tokens -> Seq(Rows)] /\ cur \in Tokens
  /\ reader \in Engine /\ writer \in Engine
  /\ slot.decoded \in Seq(Rows) /\ slot.token \in Tokens
  /\ slot.gen \in Nat /\ slot.counters \in Nat
  /\ slot.valid => slot.gen > 0 /\ slot.decoded # << >>
  /\ op \in {"none", "read", "write"}
  /\ rewrites \in 0..MaxRewrites

(***************************************************************************)
(* What an engine holds decoded is the head of the /index object it reads, *)
(* whichever engine decoded it, through every handoff and re-anchoring.    *)
(***************************************************************************)
EnginesDecodePrefix ==
  \A e \in {reader, writer} : e.open => Prefix(e.decoded, tables[e.token])

(***************************************************************************)
(* A parked decode that the guards let through is the head of the table    *)
(* the file has now: a rewrite never passes for growth.                    *)
(***************************************************************************)
AdoptedIsPrefix ==
  CanAdopt(slot, cur) => Prefix(slot.decoded, tables[cur])

(***************************************************************************)
(* An operation of the read session starts from every row the file holds,  *)
(* never from a table that has moved on since the engine decoded it.       *)
(***************************************************************************)
ReadsStartFresh ==
  [][op = "none" /\ op' = "read" => reader'.decoded = tables[cur]]_vars

(***************************************************************************)
(* A slice operation continues from the file: its row ids and its time     *)
(* counters cover exactly the committed rows, its own and those of others. *)
(***************************************************************************)
SlicesContinueFile ==
  op = "write" => /\ writer.open /\ writer.token = cur
                  /\ writer.nextRow = Len(tables[cur])
                  /\ writer.counters = Len(tables[cur])

(***************************************************************************)
(* The handoff cannot be seen: kept engines, parked decodes and re-anchors *)
(* serve every operation as an engine opened for it alone would.  A read   *)
(* has the rows of the file as they were when it began, until it ends      *)
(* (select_strategy(), adoptIndexHandoff()), and a slice continues them.   *)
(***************************************************************************)
Table == INSTANCE PanzerTable WITH
           table <- tables[cur],
           seen <- IF op = "read" THEN reader.decoded ELSE << >>,
           next <- IF op = "write" THEN writer.nextRow ELSE 0

TableSpec == Table!Spec

(***************************************************************************)
(* "Validity is the index state it was derived from": a memoised signal    *)
(* that answers is the signal of the rows decoded.                         *)
(***************************************************************************)
MemoMatchesDecode ==
  op = "read" /\ MemoHolds(reader) => reader.memo.value = reader.decoded

===============================================================================
