# A TLA+ model of IMAS-Core

IMAS-Core stores and retrieves IDSs (interface data structures) through a C API
and a set of backends. This directory holds TLA+ modules that follow its code,
TLC configurations that check them on small instances, and modules of proofs.
Paths below are relative to the root of the repository.

## 1. The system

```
 Python / C / Fortran callers
        |  al_begin_*_action, al_read_data, al_write_data, al_end_action
 low level API (src/al_lowlevel.cpp)  -- plugins (access_layer_plugin_manager.cpp)
        |  Backend interface (include/al_backend.h): openPulse, beginAction,
        |  readData, writeData, beginArraystructAction, endAction, closePulse
 HDF5 | memory | MDSplus | ASCII | flexbuffers | UDA | no-op
        |
 HDF5: hdf5_backend.cpp picks a reader and a writer by file version
   v1: one dataset per path (hdf5_reader.cpp, hdf5_writer.cpp, dataset handler)
   v2: hdf5_reader_v2.cpp, hdf5_writer_v2.cpp on top of the engine PanzerDB
```

| component | state it keeps | operations | what is hard | what makes it correct |
|---|---|---|---|---|
| **PanzerDB tables** (`src/hdf5/panzerdb.cpp`) | `/index`, `/path_table` or `/paths`, `/data_raw_*`, `/list_spans` on file; write buffers, row and path counters, the decoded leaves in memory | open, writeData, writeDataSlices, beginArray, flush, close, getLeaves | a flush is many pushes; a crash, or a reader, may come between any two; counters must resume behind whatever is on file | `/index` never outruns its payload; a row keeps its own path, slots and element boundaries; a reader decodes the committed prefix |
| **Index handoff** (same file) | the thread's parked decode; one engine per session | adopt, hand back, re-anchor | a decode outlives its engine and meets a table that grew or was rewritten | what is resumed is the head of the table; an operation starts from the whole table |
| **Time placement and lookup** (same file) | one counter per path and per dynamic array, rebuilt from the rows at open | write slices, skip gaps, find the row of a step | signals left out of operations; kept against rebuilt engines; chunked strings | slices of a path are disjoint and aligned with the timebase; a lookup finds the row written for the step |
| **v2 reader, writer, read strategies** | one engine per session, the strategy of the operation | select a strategy, read global, slice or time range | nearest and interpolated slices on sparse signals | a slice read equals the choice of interpolation on the whole signal |
| **HDF5 backend shell** (`hdf5_backend.cpp`, `hdf5_utils.cpp`) | master file, opened IDS files, target and physical version, conversion flags | getVersion, openPulse, closePulse, begin/endAction | one header per pulse and one content per IDS; upgrades, conversions, flags reset halfway | an IDS never written across versions reads back as stored; a conversion leaves no tables; every file has a link |
| **HDF5 v1** | datasets per path, AOS shapes, selections | read, write, extend | shapes grown by slices | a slice read returns what was written |
| **Context store** (`al_lowlevel.cpp`) | a vector of contexts shared by all threads | add, look up, delete; begin and end of actions | threads, errors between two steps, positions given back | an id in use names one live context |
| **Plugins** (`al_lowlevel.cpp`, `access_layer_plugin_manager.cpp`) | registry, bindings, the plugins bound for a read, the path of the last provenance read | register, bind, unbind, unregister, readback | errors halfway; nodes that take over bindings; statics shared by all calls | nothing bound is destroyed; a readback leaves the registry as the user made it, and is applied in order |
| **Memory backend** (`memory_backend.cpp`, `.h`) | a registry of contents shared by threads; per content a tree of slices per IDS; one `currentAos` per backend object | open, close, put, putSlice, get, getSlice, delete | two mutexes, reference counts, error paths; slices in sub-trees, one scratch array for writing and reading | an open entry has the registered content, every call returns; what is read, whole or at a time, was written since the last put |
| **MDSplus, UDA** | segment and request caches | read, write, cache fill | the libraries and servers are not in the repository | a cache answers as its server |
| **Interpolation** (`data_interpolation.cpp`) | none | choice of slices for a time, windows, resampled timebases, weights | boundaries of time vectors, signals with gaps | no nearer slice, the slices around a time, one slice per time of a window |
| **ASCII, flexbuffers, no-op** | one buffer per operation | (de)serialise | nothing that outlives an operation | round trip |
| **URI parser, Python binding, tools** | none | conversions | nothing that outlives a call | as their definitions |

How they interact: every call of a user passes the context store, which hands the
backend a context; a v2 operation builds or re-anchors an engine on the IDS file
group (`HDF5Writer_V2::setWriteStrategy`, `HDF5Reader_V2::select_strategy`); engines
of one thread pass their decode on through a thread-local slot; engines of
different processes meet only in the file.

## 2. Modules

| module | models | state and actions |
|---|---|---|
| `PanzerFile` | the layout of a table and what a row decodes to | operators only: `PathOf`, `Materialised`, `SlotsOf`, `SpansOf` |
| `PanzerLog` | what the engine promises: an append-only log | `committed`, `pending`; `Enter`, `Commit`, `Lose`, `Restart` |
| `PanzerTable` | what the operations of one thread see of a table that others write too | `table`, `op`, `seen`, `next`; `BeginRead`, `EndRead`, `BeginSlice`, `EndSlice`, `Rewrite` |
| `SliceMap` | what a file of slices promises the readers of its signals: a map from steps to slices | `slices`, `op`; `BeginPut`, `BeginSlice`, `EndOp` |
| `PulseMap` | what a pulse promises its users: a map from IDSs to contents | `contents`, `last`; `Put`, `Extend`, `Delete`, `Refuse`, `Blur`, `CreateAnew` |
| `PanzerStore` | the engine that writes, the crash, the readers | `index, paths, data, spans` are the datasets; `rowBuf, pathBuf, dataBuf, spanBuf` the buffers; `pathMap, nextPath, nextRow, diskSize` the counters of the code (`path_id_map`, `next_path_id`, `next_row_id`, `disk_size_*`). `OpenWrite` and `OpenAppend` are `init()`, `WriteData`, `WriteMeta`, `WriteList`, `RejectWrite` the write calls, the `Flush...` actions the pushes of `flush()` in their order, `Read...` the three phases of `getLeaves()`; `overrun` says that one wrote past its buffer. `wrote` is history: what each row was asked to hold |
| `PanzerHandoff` | engines of one thread, the parked decode | `reader`, `writer`: the session engines; `slot`: the parked state; `tables`, `cur`: the `/index` objects and the one linked. `BeginRead`/`EndRead`, `BeginSlice`/`EndSlice`, `Put` are whole operations; `Decode`, `Adopt`, `HandBack`, `ReanchorRead`, `ReanchorAppend` follow the functions of those names |
| `PanzerTime` | time steps of slices, lookups by step | `rows`, `buf`, `counters` (`aos_time_counters`), `base` (`file_time_base`); `BaseTime` is the gap anchor of `writeDataSlicesImpl`, `Restored` is `restoreTimeContext`, `Bisect`, `Unsafe`, `Lookup` the reader |
| `Interpolation` | `DataInterpolation` | operators only: `SliceSup`, `SliceInf` and `SliceIndex` are `getSlicesTimesIndices()`, `Window` and `ResampledSize` are `getTimeRangeIndices()`, `Interpolate` gives the two slices and the weight as a fraction |
| `PanzerReads` | reads of the v2 read strategies, on the file of `PanzerTime` | operators only: `NearestAvailable`, `ReadInterpolated` (`readInterpolatedData`), `ReadRange`, `ArraySize` and `ReadElement` (`TimeRangeReadStrategy`). A slice is known by its index on the timebase; `Lookup` of `PanzerTime` says whether the signal has it |
| `PulseSession` | the HDF5 backend around its engines | `master`, `links`, `files`: the pulse; `session`: versions of reader and writer, `conversion_to_v1_` and `conversion_applied_`. `BeginDataentry`, `ClosePulse`, `GlobalWrite`, `SliceWrite`, `DeleteData` are low level operations from begin to end, `GetVersion` is called by each of them as the code does. `stored` and `mixed` are history: what was stored, and whether across versions |
| `Handles` | what callers of the API are promised about ids | `live`; `Give`, `Take` |
| `ContextStore` | the context store under threads | `store`, `cur` (`llenvStore`, `curStoreElt`), `heap`, one API call per caller in `call`; `AddLLenv` and `DelLLenv` are one locked step; a lookup takes no lock and two steps, `Look` and `Found` or `LookFails`, and when the vector `moved` between them, `Copied` is anything |
| `Plugins` | the plugin registry, a put and a get that pass through it | `registry`: `llpluginsStore`, `boundPlugins`, `readbackPlugins`; `getOperationPath`; `stored`: the readback entries in the file. The user's calls are `Register`, `Unregister`, `Bind`, `Unbind`, which takes a node as its key or as a fragment (`Spellings`); an operation is `Begin`, `Transfer` per node, `EndPut`, or `BindReadback`, `ReadProvenance`, `UnbindReadback`, `EndGet`. `mine`, `wanted`, `wrote` are history |
| `MemoryEntries` | data entries of the memory backend under threads | `ctxMap`, `content` (`InternalCtx` with its count and mutex), `handle` (backend objects), `global` (the static mutex). A call is the steps between its waits: `StartOpen`, `TakeGlobal`, `Opening`, `ClearContent`; `StartAccess`, `Access`; `StartDestroy`, `TakeGlobal`, `Destroy` |
| `MemoryIds` | one IDS in the memory backend | `top`: its signals (`ALData`: `mapState`, `dimensionV`, `bufV`); `main`, `current`: the array of structures and `currentAos`. `BeginPut`, `WriteData`, `PutArray`; `BeginSlice`, `WriteSlice`, `BeginWriteArraystruct`, `PutInArraystruct`, `EndArraystruct`; `Get`, `BeginReadArraystruct`, where `Preparable` says whether what is read exists and `broken` that it did not. `log`, `asked`, `missed` are history |
| `PanzerStore_proofs`, `PanzerHandoff_proofs`, `PanzerTime_proofs`, `PulseSession_proofs`, `MemoryEntries_proofs`, `MemoryIds_proofs`, `ContextStore_proofs`, `Plugins_proofs` | theorems about the modules they are named after; those about `PanzerReads` are in `PanzerTime_proofs`, whose invariant they extend | section 5 |

`MC...` modules give the constants that a `.cfg` cannot write; `MCPanzerForms` also
starts `PanzerStore` in two forms, as a v3 file with lists or as a v2 file. Definitions
whose comment starts with "Fault:" are deliberate errors: each stands for a bug the
code could plausibly have, and swapping it for the definition below it makes the
property named in `PROJECT.json` fail. No specification uses them.

`PanzerStore` and `PanzerFile`, and `PanzerReads` with `PanzerTime` and `Interpolation`,
compose by EXTENDS. The abstract modules are instantiated with a refinement mapping in
the modules that implement them:

| abstract | implemented by | mapping |
|---|---|---|
| `PanzerLog` | `PanzerStore` (`Log`, `LogSpec`, and `BothLogSpec` of `MCPanzerForms`) | the committed rows, decoded; the buffered ones |
| `PanzerTable` | `PanzerHandoff` (`Table`, `TableSpec`) | the linked table; the leaves of the engine that reads, and the counter of the one that writes, while an operation runs |
| `SliceMap` | `PanzerTime` (`Axis`, `AxisSpec`) | the row that `Lookup` finds for each number and step |
| `PulseMap` | `PulseSession` (`Map`, `MapSpec`) | what a reader of the pulse's version gets of each IDS that was not written across versions |
| `Handles` | `ContextStore` (`Ids`, `HandlesSpec`) | the ids callers hold |

All are proved (section 5) and all but `AxisSpec` are properties of a run.

`PanzerHandoff` and `PanzerTime` abstract the file of `PanzerStore` to the committed table, which `LogSpec` justifies: between
operations nothing is pending, and a committed row does not change. `PulseSession`
abstracts further, to the sequence of payloads a file holds in each version.
`MemoryIds` is what one `InternalCtx` of `MemoryEntries` holds for one IDS: the
content's mutex makes its operations atomic.

## 3. Runs

| run | bounds | shows |
|---|---|---|
| `Store_writer` | 2 paths, 2 columns, 3 rows, 2 slots before a write, payloads of 1 and 2 slots, one reader, crash and rejection | commit order, own content, committed prefix, log refinement. Two rows of one column in one flush, two sessions around a crash with slack, and an interned path re-used all occur within 3 rows |
| `Store_forms` | v3: 3 rows, a list whose second element takes 2 of 3 slots; v2: 2 rows and a reader; no crash | the span table exact over appends and rewrites; texts and rows aligned in pre-v3 files, which only APPEND opens; a reader whose first decode comes between the pushes of `/paths` and `/index` overruns its buffer and is excepted |
| `Store_stale_spans` | lists with a reader | violation, finding 1 |
| `Handoff` | 2 addresses, 2 row contents of one (offset, count), tables of 2 rows, 2 rewrites, foreign appends and rewrites | nothing stale is adopted, kept or continued; the operations cannot be told from ones with an engine of their own (`TableSpec`) |
| `Time_slices` | 5 operations on numbers, slices of 1 and 2 steps, 3 elements, standalone and in an array; strings in 3 forms, 4 operations standalone and 3 in an array | disjoint, aligned, found again, resumed alike by kept and rebuilt engines; the bisection is the sweep. Whenever no engine holds the file: reads at 9 times (on uneven slice times, between them, outside, below zero) and over 6 windows (on slices, between two, before and behind all, resampled by a step or a list of times), in 3 interpolations, over the gaps the operations left |
| `Context_threads` | 2 threads, 4 objects, 4 positions | ids resolve and are exclusive; a lookup is given the caller's context, unless the vector grew under it |
| `Memory_entries` | 2 threads with a path each, 3 handles, 2 contents, 3 calls per thread | registry, counts and contents agree; no wait is for good (`WaitsEnd`) and every call returns. Three calls are an open, a second open or an access, and a close, on contents that are freed and made again |
| `Memory_ids` | 2 signals, arrays of 3 kinds with 2 elements and one field, 2 puts of no or 2 slices, 3 times in all, 1 or 2 apart, slices before any put, signals, the array and fields of it left out of slices | reads of the whole and at every time in 3 interpolations, between, on and outside the slices. Delays of 1 and 2 put a time half way and off half way between two slices. Undefined behaviour is met in this run, in the two ways of `NeverUndefined` only |
| `Plugins` | 2 plugins of the user, 2 for readback, 2 data nodes, the wildcard and the provenance nodes, 2 operations | a put, a get after it, and any binding between, nodes unbound as keys or as fragments: registry restored, no plugin but the user's on the provenance nodes, readback in order |
| `Plugins_dispatch` | a plugin that serves one node | violation, finding 2 |
| `Session` | 2 IDSs, 5 writes, any number of sessions of either version, upgrade and conversion allowed | contents read back, files linked, no tables beside datasets; the pulse is a map from IDSs to contents (`MapSpec`) |
| `Session_convert` | the same with 2 writes | violation, finding 3 |

Every module has a `TypeOK` that documents its state. A run checks that of
`PanzerStore`, which a fault of the code could break; the others are proved where their
module has proofs, by name or as a part of the inductive invariant, and adding one to
its cfg shows it on the instance.

`CHECK_DEADLOCK FALSE` stands where a behaviour ends by a bound of the model: the
number of operations or calls in `PanzerTime`, `MemoryEntries`, `MemoryIds` and
`Plugins`, and leaked objects, which never come back, in `ContextStore`. The other runs
check deadlock. `Memory_ids` and `Session` use symmetry in the signals and the IDSs,
which no definition tells apart; neither checks a liveness property.

Fairness is assumed in one run. In `Memory_entries` a thread that is inside a library
call runs on whenever it can, `WF_vars(Proceed(t))`: a runnable thread is scheduled,
and whoever holds the global mutex gives it back within two of its own steps. A thread
makes a bounded number of calls in the model, so nobody is overtaken for ever. Whether
a thread makes another call is its own affair and has no fairness. The
other modules have no waits, retries or schedulers: their calls run to completion in
their caller's thread, and a caller may stop at any time, so no liveness is claimed
for them.

## 4. Divergences found

Three are runs that must fail; the quotes are in `PROJECT.json`.

1. `Store_stale_spans`: `/list_spans` is loaded once per engine and not on refresh
   (`panzerdb.cpp:1288`).
2. `Plugins_dispatch`: a plugin is asked whether it serves the path of the last
   provenance read, not the node transferred (`access_layer_plugin_manager.cpp:686`
   and `732`; `plugins_architecture.rst:164` says otherwise).
3. `Session_convert`: every begin of a write calls `getVersion()` after `beginAction()`,
   which resets the flag that closes the conversion: the pulse keeps its label 2.0 over
   version 1 files (`hdf5_backend.cpp:154`; `hdf5_backend.h:165` says otherwise). The
   same reset is why every IDS of the session is dropped before its first write
   (`NoTablesBeside`), against the comment "once per session" (`hdf5_backend.cpp:283`):
   a flag that stayed set would leave the tables of the second IDS in place. It also
   makes a second slice of one IDS drop the first; `ReadsBack` excludes IDSs written
   across versions, and without that condition a put, a slice and another slice in a
   converting session show it.

Four more happen in passing runs, whose properties except exactly them. Checking the
stronger property shows each of them:

* `Store_forms`: the first decode of a row-aligned file makes a buffer for the rows it saw
  in `/index` and, when `/paths` has more, reads all of `/paths` into it
  (`panzerdb.cpp:2079`), though "its tail block covers exactly these rows" (`2056`). A
  flush pushes `/paths` before `/index`, and a crash between the two leaves the surplus on
  file for good. `ReaderDecodesPrefix` and `ReaderSpansCurrent` are about readers that
  have not `overrun`; `\A r \in Readers : ~reader[r].overrun` fails.
* `Context_threads`: `getLLenv()` reads the vector with no lock (`al_lowlevel.cpp:558-572`)
  while `addLLenv()` may be growing it (`546`), so it may copy an element of memory the
  vector has given back. Such a lookup is given anything here (`Copied`), and `IdsResolve`
  promises an answer to the others only; without `~call[c].moved` it fails.
* `Memory_ids`: undefined behaviour is met in the two ways `NeverUndefined` names; with
  `~broken` in its place the run fails. (1) In an IDS that slices began: a signal that no put()
  wrote is read by prepending as many samples as the output argument of the caller
  happens to say (`memory_backend.cpp:198`), and an array is read at times that are not
  there. (2) When the array is incomplete: a field that a slice lacks is a null pointer
  (`59`); a timed array that missed a slice is shorter than its times (`710`); a put() of no
  slices resizes it for an element without data (`338`), behind which the slices append
  theirs (`542`); a static array with a field that no slice wrote is copied from
  arguments nobody set (`746-780`).
* `Plugins`: a get binds the user's own plugins to the provenance nodes
  (`access_layer_plugin_manager.cpp:186-248`) and notes them in a
  map that its end clears without unbinding (`268-276`): they stay bound there. With
  `registry.bound[Provenance] = << >>` for its last conjunct, `RegistryIsUsers` fails. And
  `bindPlugin()` brings a node given as a fragment to the form of its key
  (`al_lowlevel.cpp:191-263`) while `unbindPlugin()` looks for it as it is written (`297`):
  a plugin unbound by the fragment it was bound by stays bound, though
  `al_unbind_plugin(...)` "removes the plugin name from the list"
  (`docs/source/developers/plugins_architecture.rst:110`). `wanted` keeps it, too.

One deviation from a comment has no property: `deleteData()` of the HDF5 backend removes the
file of an IDS and keeps its link, against `hdf5_backend.h:245` ("its file and its link");
`DeleteData` of `PulseSession` follows the code.

The passing runs leave out, by a named constant, the cases below. Changing the
constant, or checking the named property, shows the violation:

* `Store_forms` with `CanCrash = TRUE`: `SpansIntact` fails. `/list_spans` is pushed
  before `/index` and nothing removes the rows of a flush that a crash cut short; the
  next session hands the same row ids out again and inherits them
  (`panzerdb.cpp:1095`; the comment at `952-957` speaks of harmless payload only).
  `BothRowsIntact` fails too: `/paths` is pushed before `/index` in a row-aligned
  file, so a crash between them shifts the path of every later row (`960`).
* `Handoff` with `MemoMatchesDecode`: a memoised whole signal is parked without its
  validity (`panzerdb.cpp:1443`, against the comment at `1409-1410`).
* `Handoff` with `EmptyPut = TRUE`: `ReadsStartFresh` fails. `reanchor()` compares
  extents only when it decoded a row (`panzerdb.cpp:1483`).
* `Handoff` with `ReuseAddress = TRUE`: `AdoptedIsPrefix` fails. The guards of
  `adoptIndexHandoff()` cannot tell a foreign rewrite whose `/index` lands on the
  address of the old one and whose last common row has the same (offset, count).
* `Time_slices`: what is left out about strings. A standalone string advances its
  counter without the gap it skipped (`panzerdb.cpp:3018`), so a kept engine and a
  re-opened one go on at different steps (`ReopenAgrees` leaves it out). After a slice
  without it, one that writes it after its time and one that writes it before, a kept
  engine has put two of its slices on one step: with `Counted(p) == TRUE`, `SpansDisjoint` fails at 4 operations. A string
  in two chunks is taken for two steps by `isTimeInLeaf()` (`3306`) and by
  `restoreTimeContext()` (`904`), though not by `rebuildDynamicRootTimeIndex()`, so a
  read of the second step returns the first value (`LookupFindsOwnRow` is about
  numbers), and an array that holds strings is restored too long (`Exact` leaves out its size).
* `Time_slices`: `ReadsNearest` speaks of times from zero on. For a time below zero
  `nearestAvailableSliceIndex()` measures the distance in indices
  (`panzerdb.cpp:3458`), so inside a gap a slice may be given that is not "nearest
  available slice in time" (`4262`). Without `s >= 0` the run fails. A tie between two
  slices the signal has goes to the later one, a tie across a gap to the earlier one;
  `4262` says the lower index for both, and the property is about distances only.
* `Time_slices` with an array that holds a timebase, a number and a string
  (`signals |-> {time, sig, label}`): `ReadsNearest` fails at 3 operations. A
  fresh open counts a list of strings by its slots, so the array goes on at an element
  too late (`panzerdb.cpp:904`), and the timebase with it, whose samples are then fewer
  than its steps: what a number is written for there lies behind the last time.
* `Time_slices` with `Held = 7`: the size of a timed array whose window lies before or
  behind all times is what the variable of the caller held, as
  `getTimeRangeIndices()` returns before it sets it (`data_interpolation.cpp:54-70`), and
  `WindowsAgree` fails.
* `Context_threads` with `StoredIsAlive`: an empty array of structures leaves a stored
  pointer to a deleted context, and its position is never given back
  (`al_lowlevel.cpp:1609`).
* `Memory_entries` with `PathsOf <- OnePath`: `WaitsEnd` and `EveryCallReturns` fail.
  `InternalCtx::unlock()` locks (`memory_backend.h:360`), so the first thread to work on
  a content keeps it. With `CloseShared = TRUE`, `OpenMeansRegistered` fails: the destructor frees and unregisters the content whatever the reference count
  says (`memory_backend.h:427-428`, against the comment at `416`). With
  `EndFailed = TRUE`, a handle whose open failed is ended through a null content.
* `Memory_ids` with `Overlap = TRUE`: a read at a time replaces the array being
  written (`currentAos`), and `OwnElements` fails.
* `Plugins` with `KeepUnbound = TRUE`: a plugin that is not bound stays registered when
  it is unregistered (`al_lowlevel.cpp:382`). With `Rebind = TRUE`: a node that took over
  the bindings of all nodes keeps them when those change (`al_lowlevel.cpp:140`). With
  `OwnReadback = TRUE`: the end of a get unbinds a readback plugin that the user bound
  too. With a library in `Broken`: its registration fails halfway and leaves an entry
  without a plugin in the store, which can be bound (`BoundAreLoaded`). When two plugins
  name the same readback plugin, it is bound to a node once only, and `ReadbackInOrder`
  fails. A get that fails at a plugin in `Mismatched` leaves the readback plugins bound so
  far in place until the end of a later get; no property fails, for what is bound is
  loaded, and `RegistryIsUsers` waits until `readbackPlugins` is empty. With
  `BegunBeforeCalled`: only the plugins of the first bound node are told of an operation
  (`al_lowlevel.cpp:170`).

One more is read from the code and not shown by a run: a slot parked by an APPEND
engine holds no array size counters, and a READ engine that adopts it whole skips
the function that would rebuild them (`panzerdb.cpp:1400` and `1433-1442`).

## 5. Proofs

`PanzerStore_proofs` proves, for all sets of paths, columns, slots, payloads, lists
and readers, all bounds, and with crashes and rejected writes allowed:

| theorem | statement |
|---|---|
| `TypeCorrect` | `Spec => []TypeOK` |
| `CommitFollowsPayload` | `Spec => []Backed`, for both layouts |
| `PayloadsNeverMix` | `Spec => []SlotsIntact`, for both layouts |
| `RowsNeverMix` | `PathsKept`, then `Spec => []RowsIntact` |
| `SpansStayWithTheirRow` | `SpansKept`, then `Spec => []SpansIntact` |
| `ReadersSeePrefix` | `PathsKept`, then `Spec => []ReaderDecodesPrefix` |
| `StoreIsLog` | `PathsKept` and `SpansKept`, then `Spec => LogSpec`, the refinement of `PanzerLog` |

`ReadersSeePrefix` speaks of every reader that has not overrun its buffer, which section 4
says the first decode of a v2 file may do; a refresh, and any decode of a v3 file, cannot.
`PathsKept` is `Version = 3 \/ ~CanCrash`: in a row-aligned file a crash between the push
of the texts and that of the rows shifts the path of every later row. `SpansKept` is
`Lists = {} \/ (~CanCrash /\ ~CanReject)`: `/list_spans` names a row by its number, and
a crash or a rejected list leaves entries for a number that another row gets. Both are
the violations of section 4, and TLC shows that the theorems fail without them. They
hold for either version, so they also say for every file what `BothRowsIntact`,
`V2ReaderDecodesPrefix` and `BothLogSpec` check of two.

The first three share one inductive invariant, `IInv`. `Backed` alone is not inductive: that a
push of `/index` keeps it depends on what was pushed before. `IInv` is the
conjunction of

* `TypeOK`;
* `Recorded`: the history has an entry for every committed or buffered row;
* `Phases`: which buffers a stage of `flush()` has already emptied, and that no
  row is buffered and no flush is under way while no engine is open;
* `Counted`: `disk_size_*` is the extent of its column while an engine is open and,
  in version 3, `next_path_id` is the number of texts and every number in
  `path_id_map` is the place of its own text;
* `Committed`: a committed row lies inside its column, its path id has a text, and
  what it decodes to is its history entry;
* `Buffered`: the same for a buffered row, read in the file as it will be once the
  buffers are pushed.

Every action then either appends to a column, a table or the rows, under which
`Buffered` and `Committed` are stable, or moves rows from `Buffered` to `Committed`,
when the stage says that nothing is left to push, or drops the buffers. The proof
has one lemma per group of actions and one step per conjunct an action can disturb.

The other theorems add to it

* `Aligned`: in a row-aligned file there is one text per row, when the buffers are read
  as the continuation of both tables, and the texts are pushed first;
* `Tabled` and `Tiled`: the span table, with its buffer behind it, lists for every row
  with a list its elements in order, and for no other row anything; so `SpansOf`, which
  sweeps the table, gathers exactly the elements of its row;
* `Readings`: the texts a reader holds are a prefix of the file's that covers the rows
  it saw committed, and the leaves it has are the first of the rows on file. A file only
  grows while a reader is attached, so what was read in an earlier phase stays true;
* `Flushing`: a flush under way has something to commit, which is why the push of
  `/index` is a `Commit` and no other push is a step of the log at all.

`SpansOf` and `NewLeaves` are loops over the rows of a table, written as recursive
functions. A fact about a loop is proved for all its turns at once: the set of turns
before which the fact holds contains 0 and with every turn the next, and so is `Nat`
(`NatFromZero`, from the least element of a set of numbers). That is induction over a
set, not over a predicate, which these provers can do.

The proofs use the assumptions of the modules only: `NoPath` is not a path, the
string column is a column, the version is 2 or 3, payloads and lists are sequences
of slots with ordered ends, and the bounds are natural numbers.

`PulseSession_proofs` proves, for all sets of IDSs, with upgrades and conversions
allowed or not, and any number of sessions and writes:

| theorem | statement |
|---|---|
| `TypeCorrect` | `Spec => []TypeOK` |
| `SessionsReadBack` | `Spec => []ReadsBack` |
| `FilesAreLinked` | `Spec => []FilesLinked` |
| `ConversionLeavesNoTables` | `Spec => NoTablesBeside` |
| `PulseIsMap` | `Spec => MapSpec`, the refinement of `PulseMap` |

`ReadsBack` is not inductive: the reader of a session must follow the header
(`SessionInv`, which also holds that no session ends with its conversion applied, the
code's divergence 3), and an unmarked IDS that has a file has content of the pulse's
version in it (`Filled`), or the append engine would lose its next slice. For `PulseIsMap`,
the end of a session and its beginning are stutters, unless the pulse is created anew;
a write is a `Put` or an `Extend` where the session writes what it reads, a `Blur` where it does
not, and leaves the files of every other IDS alone.

`MemoryEntries_proofs` proves, for all threads, handles, paths and contents:

| theorem | statement |
|---|---|
| `EntriesTyped` | `Spec => []TypeOK`, mutual exclusion of the global mutex included |
| `OpenIsRegistered` | paths not shared by threads, no content closed under another handle and no failed handle ended, then `Spec => []OpenMeansRegistered` |
| `ReferencesCounted` | and finitely many handles, then `Spec => []CountedAndRegistered` |
| `NobodyWaitsForGood` | the hypotheses of `OpenIsRegistered`, then `Spec => []WaitsEnd` |

The invariant of the first two adds `Calls` (a thread in a call is the only user of its handle, which is
in the state the call needs) and `Registry` (`ctxMap` and the live contents are inverse
to each other; a handle about to be destroyed shares its content with nobody, which is
where the three conditions are used; section 4 says what happens without them). For the
counts, `refCount` is the number of the handles that `openPulse()` gave the content to
(`Counted`): opening adds one handle to a finite set, and the destructor's handle is,
by `Registry`, the only one left. `WaitsEnd` says that whoever waits for a mutex
waits for a thread that can run. `unlock()` never gives the mutex of a content back, so it
holds because nobody else ever wants it: a content's mutex is with a thread whose path the
content has (`Owned`), and no other thread works on that path. This is the safety half
of `EveryCallReturns`, which adds the fairness.

`MemoryIds_proofs` proves, for all signals, fields, kinds and numbers of elements,
slices, times and puts:

| theorem | statement |
|---|---|
| `SliceOwnsCurrent` | `Spec => []OwnElements` |
| `PutStartsOver` | `Spec => []NothingStale` |
| `ReadsAreWhole` | `Spec => []WholeReads` |
| `SlicesAnswer` | `Spec => []SliceReads` |
| `NothingUndefined` | `Spec => []NeverUndefined` |

All assume that no read runs into an open slice (`~Overlap`), and nothing else: slices may
come before any put, a put may be empty, and slices may leave out signals, the array and
fields of it. `Base` has the
types, that times ascend, and that the open array is the slice's own. `Renewed` says that
every sample in the tree, or on its way into it, carries the number of the last put.
`Held` is what makes reads come out: the samples of a signal no slice missed, the
elements of an array nothing left out and the ones in `currentAos` are, in closed form, what the times
logged since the put make them (`SignalsHold`, `ArrayHolds`, `AskedHolds`). `Sound` adds
that every signal is mapped after the first put; with `Held` it gives that whatever is
read of a complete array exists (`AlwaysPreparable`). A read at a time then follows from
lemmas about the operators of `Interpolation`: for an ascending timebase the index they
choose lies inside it, on either side of the time asked for.

`ContextStore_proofs` proves, for all threads, objects and bounds on the store:

| theorem | statement |
|---|---|
| `StoreTyped` | `Spec => []TypeOK` |
| `IdsAlwaysResolve` | `Spec => []IdsResolve` |
| `StoreGivesHandles` | `Spec => HandlesSpec`, the refinement of `Handles` |

`IdsResolve` is not inductive: an action may free an object or clear a position that
another thread depends on. The invariant adds who owns an object, a handle or a call
that has stored it or is about to delete it; no object has two owners (`Unshared`), so
two owners have different positions, and every position in use lies before
`curStoreElt` (`Owned`). The second half of `IdsResolve` needs that while a thread looks an id
up it holds that id, so nobody else clears its position: only the growth of the vector,
which a lookup notices in `moved`, can come between. For the refinement, `Return` is a `Give`, `EndAction` a `Take`,
and every other step leaves the handles alone.

`PanzerHandoff_proofs` proves, for all rows, addresses and bounds, and any appends and
rewrites by others that do not land on the address of a dead table
(`ReuseAddress = FALSE`; section 4 says what happens otherwise):

| theorem | statement |
|---|---|
| `EnginesHoldHeads` | `Spec => []EnginesDecodePrefix` |
| `RewriteIsNoGrowth` | `Spec => []AdoptedIsPrefix` |
| `SlicesContinue` | `Spec => []SlicesContinueFile` |
| `ReadsAreFresh` | no put leaves an empty table (`EmptyPut = FALSE`), then `Spec => ReadsStartFresh` |
| `HandoffIsInvisible` | the same, then `Spec => TableSpec`, the refinement of `PanzerTable` |

A decode is tied to an address. An engine keeps its object open, so its decode stays the
head of what is there (`EnginesOfTables`). A parked decode keeps nothing open, and all
that is true of it is conditional: if the file links to its address, the table there
starts with it (`SlotOfTable`). That survives because rewrites of this thread clear
the slot, those of others avoid its address, and a closing engine parks a decode of its
own. The counters of a slice engine are its own rows (`WriterCounts`), and a session's engine
that another one outran is re-anchored before it numbers anything. For the refinement the
parked decode, the sessions' engines and the addresses are hidden: whatever an operation
resumed, it starts from the linked table (`ReadsAreFresh`, `SlicesContinue`), and what
others do between operations is a `Rewrite`.

`PanzerTime_proofs` proves, for all signals, forms of slices and numbers of operations:

| theorem | statement |
|---|---|
| `SlicesDisjoint` | `Spec => []SpansDisjoint` |
| `KeptEnginesAgree` | `Spec => []ReopenAgrees` |
| `SlicesLandOnTimes` | `Spec => SlicesAligned` |
| `NarrowingLosesNothing` | `Spec => []NarrowingIsSweep` |
| `StepsAreFound` | `Spec => []LookupFindsOwnRow` |
| `SignalsAreMaps` | `Spec => AxisSpec`, the refinement of `SliceMap` |
| `ReadsAreNearest` | `NumbersApart`, then `Spec => []ReadsNearest` |
| `ReadsAreAround` | `NumbersApart`, then `Spec => []ReadsAround` |
| `WindowsAreAgreed` | `NumbersApart` and `Held = 0`, then `Spec => []WindowsAgree` |

`SpansDisjoint` needs that no row reaches past its path's counter (`Behind`), also when
the counters were rebuilt from the rows. For `ReopenAgrees`, the counter of an exact key
is the end of its furthest row, or zero (`Reached`), which is what `Restored` computes by
a maximum; the maximum exists because an end is bounded by a counter (`LeastNatural`, from
the well-foundedness of the naturals). Alignment adds where the timebase will end
in this operation (`Target`): outside arrays no number is ahead of it, in an array no
signal is ahead of the array.

`NarrowingIsSweep` needs nothing of the file: it holds for any sequence of rows. A path
that `Unsafe` lets through has rows that neither start nor end out of order
(`SafeIsOrdered`). Turn by turn, every row before the bisection's window ends before the
step or at it, and every row behind it starts after it (`Turn`); the window shrinks with
every turn, so a bounded number of them empties it (`BisectionRuns`). The rows that are
left to the sweep are those that start in time, and of these only the last can cover the
step (`LastCanCover`). `LookupFindsOwnRow` adds `SpansDisjoint`: no other row covers a
step that a row was written for. With it, the slices that lookups find are those the rows
were laid down for (`SlicesAreLaid`, by `OwnRow` and, the other way round, by what
`Lookup` covers). That turns `SignalsAreMaps` into a statement about rows: the end
of an operation appends its buffer to them, and a row appended to a signal
starts behind the ones it has, by `SpansDisjoint` and `Behind`.

The last three are about reads, for any ascending `TimeValues` that suffice for the
files (`TimesSuffice`), any integer `Requests` and any `Windows` with a positive step.
Their hypotheses exclude two cases of section 4: `NumbersApart` says that no
array has strings and numbers beside its timebase, which the files of the run satisfy, and
`Held = 0` is about the size of an empty window. A read answers from
the times on file, so the first thing to prove is that there is one for every step
(`ReadInv`): the rows of the timebase leave no gap (`Unbroken`), no number reaches
behind them (`Covered`), the signals of an open array are at one element (`InPlace`),
and the samples stay below the bound of the files (`Fits`, which counts what the running operation still
owes). At rest, a signal is then available at exactly the indices it was written for
(`AtRestIs`). The rest is about any ascending timebase and any set of slices on it:
the standard searches split the times at the one asked for
(`LowerBoundAt`), `nearestAvailableSliceIndex()` goes to the nearest slice on the preferred
side (`Preferred`), and each mode of `readInterpolatedData()` gives the slices that are
first and final around the time (`First`, `Final`); a linear read that starts at a
wrong pair, at either end of the timebase, still ends on one slice. A window is its
times in order (`FileTimes`, `ResampledTimes`, `ListedTimes`), each of which is a read.

`Plugins_proofs` proves, for all plugins, nodes, bindings, versions and numbers of
operations:

| theorem | statement |
|---|---|
| `NothingBoundIsDestroyed` | `Broken = {}`, then `Spec => []BoundAreLoaded` |
| `RegistryComesBack` | `Broken = {}` and none of `Rebind`, `OwnReadback`, `KeepUnbound`, then `Spec => []RegistryIsUsers` |
| `ReadBackInOrder` | `ReadsBack`, `OneEach` and not `OwnReadback`, then `Spec => []ReadbackInOrder` |
| `TypesHold` | `Spec => []Types` |

Each hypothesis excludes a case of section 4. `ReadsBack` says that the readback plugins
have their symbols, the version a file asks for, and serve reads; `OneEach` that no two
plugins name the same one. `RegistryComesBack` holds for any `Mismatched`: a failed get
leaves borrowed plugins behind, and the next one that ends gives them back.

The registry changes in loops over plugins, entries and keys. A lemma on a loop takes a
family `J[n]` of registries, one for each number of turns, and from turns that lead from
`J[n - 1]` to `J[n]` concludes where the loop ends. For `BoundAreLoaded` one set does for
all turns: no single change leaves the registries whose bindings are loaded (`Sound`). For
`RegistryIsUsers` the invariant says what the registry is without readback plugins
(`AsUserLeftIt`), and that of the readback plugins exactly those in `readbackPlugins` are
loaded and bound (`Borrows`), and that by `Sound` whatever a provenance node still has is in
the store, which without readback plugins is the user's; unbinding shortens that list turn by turn until it is empty.
For `ReadbackInOrder`: what `write_plugins_metadata()` stored of a node has its indices
in descending order (`Descends`), binding `n` entries from the end leaves the last `n`
bound in the order of their index (`Follows`), and nothing that is bound later goes
before what is bound (`KeptOrder`).

Only model-checked: `EveryCallReturns` of `MemoryEntries`, liveness under fairness, which
is out of the prover's reach (`NobodyWaitsForGood` is its safety half). The properties of
`MCPanzerForms` are those of `PanzerStore` for two values of its constants, which the
theorems cover.

Only proved: `AxisSpec`. TLC would have to evaluate
`Lookup` for every step in both states of a transition, where it does not remember the
turns of the bisection and evaluates each of them from the first one on. With the sweep in
place of `Lookup`, which `NarrowingIsSweep` says is the same, TLC checks `AxisSpec` at 3
operations without an error.

The loops of the models are recursive functions in a LET, about which
the proofs reason turn by turn; no theorem is about a `RECURSIVE` operator.

## 6. Abstractions

* A payload is a sequence of opaque slots; types, compression, chunk sizes and the
  bytes of a row are left out. A path is a value; its length, cut at 255 bytes on
  file, is left out.
* HDF5 itself is not modelled. A push is one step, pushes survive a crash in
  program order (the model `flush()` argues from, `panzerdb.cpp:952`), and no HDF5
  call fails.
* A read of a whole dataset fits the buffer made from an extent asked of the same open
  dataset before: whether HDF5 lets another process's growth show between the two is
  its own affair. Only `/paths` against `/index`, two datasets, can overrun (section 4).
* The columns are pushed in any order, in the code in a fixed one. The buffers are
  emptied with their push, in the code together at the end of `flush()`; nothing
  reads them in between.
* `PanzerStore` reduces the stack of arrays of structures to the node rows it
  writes. The parent columns of a row are left out.
* In `PanzerHandoff` a row is one time step, an operation of the thread is atomic
  towards other processes, and a `put()` commits once.
* In `PanzerTime` a signal is written once per operation or element, and every
  operation writes its timebase.
* In `PanzerReads` times are integers: that `ti += dtime` (tolerance 1e-12) and
  `floor((tmax - tmin) / dtime + 1e-9)` count the same points in floating point is not
  shown. A window is resampled with a positive step. The engine's memory of paths
  without slices is left out: it is dropped when the decode changes, and between two
  changes it repeats an answer. `IncreasingPrefix` handles a tail of invalid times, which
  no file of the run has. Strings over a window are cut from the whole signal
  (`interpolate_with_resampling`), and a time base inside an array element is read by a
  branch of its own; both are left out.
* In `ContextStore` plugins are disabled, and the link from a context to its parent
  is left out: ending children first is the caller's duty.
* In `PulseSession` an operation is one step from begin to end, and a payload is the
  number of the write that brought it. A failing version 1 put leaves its IDS all or
  nothing; the code fails at one dataset and keeps those before it. The handles of open files, which conversions
  and `release_session()` close in order, are left out.
* In `Plugins` there is one data object; all nodes below `ids_properties/plugins` are
  one key; what a plugin does to the data is left out, who is called is kept. The
  library symbols a plugin may lack are the set `Broken`.
* In `MemoryEntries` a call on a content is one locked step (`MemoryIds` is its inside);
  a path stands for the full name the URI gives.
* In `MemoryIds` a value has the time dimension only, an array has no array inside,
  linear interpolation is the pair of samples and the weight, and a putSlice() brings one
  slice (`writeData()` adds several in a loop, one after the other). The high-level `put()`
  deletes every node of the IDS before it writes; a deleted node stays in the tree.

## 7. Not modelled, and the plan

Not modelled: MDSplus, UDA and the HDF5 library (external); ASCII, flexbuffers and
no-op backends, URI parser, Python binding and tools (no state that outlives a
call); the vendored and generated code (pugixml, flatbuffers, semver, IDSDef). These
are more than half of the source lines.

Plan, most important first:

1. The HDF5 v1 backend: shape datasets, extents grown by slices, buffered writes.
2. A module for the stack of arrays of structures (`beginArray`, `endArray`,
   `incrementArrayIndex`, node rows and parent ids, the drift after a rejected row,
   an exception halfway), composed with `PanzerTime`.
3. Strings over a window, and time bases inside array elements, in `PanzerReads`.
