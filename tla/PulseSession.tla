----------------------------- MODULE PulseSession -----------------------------
(***************************************************************************)
(* The HDF5 backend around its storage engines: a pulse is a master file   *)
(* with a version header and a link per IDS, and one file per IDS, which   *)
(* may hold version 1 datasets, version 2 tables, or both.                 *)
(*                                                                         *)
(* Sessions follow one another on one pulse.  Each one has a target        *)
(* version, which its writer follows for good, while its reader follows    *)
(* the version found in the master file.  Two switches let a session write *)
(* another version than the one it reads: an upgrade and a conversion.     *)
(*                                                                         *)
(* The operations are those of the low level API, from their begin to      *)
(* their end: a global write, a slice, a deletion.  What an IDS holds is   *)
(* the sequence of the payloads stored into it; a payload is the number of *)
(* the write that brought it.                                              *)
(***************************************************************************)
EXTENDS Naturals, Sequences

CONSTANTS
  IDSs,        \* the IDSs of the pulse
  Upgrade,     \* BACKEND_ALLOW_AUTO_UPGRADE
  Conversion,  \* BACKEND_HDF5_FORCE_CONVERSION_TO_V1
  MaxWrites    \* bound on the writes

ASSUME SwitchesAssumption == Upgrade \in BOOLEAN /\ Conversion \in BOOLEAN
ASSUME MaxWritesAssumption == MaxWrites \in Nat

Versions == {1, 2}

NoMaster == 0

Modes == {"open", "force_open", "create", "force_create"}

NoFile == [exists |-> FALSE, held |-> [v \in Versions |-> << >>]]

NoSession ==
  [open |-> FALSE, mode |-> "open", target |-> 2, reader |-> 2,
   converting |-> FALSE, applied |-> FALSE, wrote |-> FALSE]

VARIABLES
  master,   \* the version header of the master file, NoMaster without one
  links,    \* the IDSs the master file links to
  files,    \* [IDSs -> file]
  session,  \* the backend of the session under way
  stored,   \* [IDSs -> what was stored into it], a history
  mixed,    \* [IDSs -> how sessions that read another version wrote it], a history
  writes    \* writes so far

vars == <<master, links, files, session, stored, mixed, writes>>

Init ==
  /\ master = NoMaster /\ links = {} /\ session = NoSession
  /\ files = [i \in IDSs |-> NoFile]
  /\ stored = [i \in IDSs |-> << >>]
  /\ mixed = [i \in IDSs |-> {}]
  /\ writes = 0

-------------------------------------------------------------------------------
\* Fault: a conversion that was applied stays so, as the header comment has it.
GetVersionOnce(s) ==
  LET converts == s.mode \in {"open", "force_open"} /\ s.target < master'
  IN  [s EXCEPT !.reader = master', !.converting = @ \/ converts]

(***************************************************************************)
(* getVersion(ctx), called when the pulse was opened and once more at the  *)
(* begin of every write: the reader of the physical version is installed,  *)
(* and a session of target 1 on a pulse of version 2 becomes a conversion. *)
(***************************************************************************)
GetVersion(s) ==
  LET converts == s.mode \in {"open", "force_open"} /\ s.target < master'
  IN  [s EXCEPT !.reader = master',
                !.converting = @ \/ converts,
                !.applied = @ /\ ~converts]

\* The combinations of versions getVersion() lets through.
Accepts(version, target) ==
  \/ version = target
  \/ version < target /\ Upgrade
  \/ version > target /\ Conversion

\* Fault: only the files this backend has opened go, none at this point.
EmptiedOpened == files

\* What FORCE_CREATE_PULSE removes: deleteMasterFile() follows the links.
Emptied == [i \in IDSs |-> IF i \in links THEN NoFile ELSE files[i]]

\* openPulse() on the master file there is.
OpenMaster(mode) ==
  /\ mode \in {"open", "force_open"} /\ master # NoMaster
  /\ UNCHANGED <<master, links, files, stored, mixed>>

\* createPulse(): the master file is new, and what the old one linked is gone.
CreateMaster(mode, target) ==
  /\ \/ mode \in {"force_open", "create"} /\ master = NoMaster
     \/ mode = "force_create"
  /\ master' = target
  /\ links' = {}
  /\ files' = Emptied
  /\ stored' = [i \in IDSs |-> << >>]
  /\ mixed' = [i \in IDSs |-> {}]

\* al_begin_dataentry_action(); a session that is refused leaves the pulse as it was.
BeginDataentry(mode, target) ==
  /\ ~session.open
  /\ OpenMaster(mode) \/ CreateMaster(mode, target)
  /\ Accepts(master', target)
  /\ session' = GetVersion([NoSession EXCEPT !.open = TRUE, !.mode = mode,
                                             !.target = target])
  /\ UNCHANGED writes

\* Fault: a session that wrote leaves the pulse labelled with its own version.
ClosePulseByTarget ==
  /\ session.open
  /\ master' = IF session.wrote THEN session.target ELSE master
  /\ session' = NoSession
  /\ UNCHANGED <<links, files, stored, mixed, writes>>

\* closePulse() relabels the pulse of an applied conversion.
ClosePulse ==
  /\ session.open
  /\ master' = IF session.applied THEN 1 ELSE master
  /\ session' = NoSession
  /\ UNCHANGED <<links, files, stored, mixed, writes>>

-------------------------------------------------------------------------------
\* The storage goes with the write of a conversion that is not applied yet.
Drops == session.converting /\ ~session.applied

\* Fault: the version 2 tables of the file stay where they are.
PreparedBeside(i) == files[i]

\* HDF5Backend::beginAction() of a write: a conversion removes the file first.
Prepared(i) == IF Drops THEN NoFile ELSE files[i]

\* The begin of every write creates the link; getVersion() follows it.
BeginWrite(i) ==
  /\ session.open
  /\ writes < MaxWrites
  /\ writes' = writes + 1
  /\ UNCHANGED master
  /\ links' = links \union {i}
  /\ session' = GetVersion([session EXCEPT !.applied = @ \/ Drops, !.wrote = TRUE])

\* A session that reads one version and writes the other one marks what it writes.
Marked(i) ==
  [mixed EXCEPT ![i] =
     @ \union (IF session.reader < session.target THEN {"upgrade"} ELSE {})
       \union (IF session.reader > session.target THEN {"conversion"} ELSE {})]

(***************************************************************************)
(* A global write.  The version 2 writer wipes its tables and lays them    *)
(* down anew.  The version 1 writer creates its datasets, and fails when   *)
(* they are there already: a put() has to delete the IDS first.            *)
(***************************************************************************)
GlobalWrite(i) ==
  LET v == session.target
      file == [Prepared(i) EXCEPT !.exists = TRUE]
      fails == v = 1 /\ file.held[1] # << >>
  IN  /\ BeginWrite(i)
      /\ files' = [files EXCEPT ![i] =
                     IF fails THEN file ELSE [file EXCEPT !.held[v] = <<writes'>>]]
      /\ stored' = IF fails THEN stored ELSE [stored EXCEPT ![i] = <<writes'>>]
      /\ mixed' = IF ~fails /\ session.reader = v THEN [mixed EXCEPT ![i] = {}]
                  ELSE Marked(i)

(***************************************************************************)
(* A slice is a global write when the IDS has no file.  Otherwise it goes  *)
(* behind what its version holds; the append engine of version 2 finds no  *)
(* table in a file that has none, and what it is given is lost.            *)
(***************************************************************************)
SliceWrite(i) ==
  LET v == session.target
      file == Prepared(i)
      lost == v = 2 /\ file.exists /\ file.held[2] = << >>
  IN  /\ BeginWrite(i)
      /\ files' = [files EXCEPT ![i] =
                     IF lost THEN file
                     ELSE [file EXCEPT !.exists = TRUE,
                                       !.held[v] = Append(@, writes')]]
      /\ stored' = [stored EXCEPT ![i] = Append(@, writes')]
      /\ mixed' = Marked(i)

\* A write that deletes the IDS: its file goes, its link stays.
DeleteData(i) ==
  /\ BeginWrite(i)
  /\ files' = [files EXCEPT ![i] = NoFile]
  /\ stored' = [stored EXCEPT ![i] = << >>]
  /\ mixed' = [mixed EXCEPT ![i] = {}]

Next ==
  \/ \E mode \in Modes, target \in Versions : BeginDataentry(mode, target)
  \/ ClosePulse
  \/ \E i \in IDSs : GlobalWrite(i) \/ SliceWrite(i) \/ DeleteData(i)

Spec == Init /\ [][Next]_vars

-------------------------------------------------------------------------------
\* Every variable keeps its shape, a session has a master file, only a conversion is applied.
TypeOK ==
  /\ master \in Versions \union {NoMaster}
  /\ links \subseteq IDSs
  /\ \A i \in IDSs :
       /\ files[i].exists \in BOOLEAN
       /\ DOMAIN files[i].held = Versions
       /\ \A v \in Versions : files[i].held[v] # << >> => files[i].exists
       /\ mixed[i] \subseteq {"upgrade", "conversion"}
  /\ session.open => master # NoMaster
  /\ session.applied => session.converting

(***************************************************************************)
(* Whatever sessions came and went, an IDS no session wrote across         *)
(* versions reads back as it was last stored, through the reader that the  *)
(* master file calls for (HDF5Backend::getVersion()).  The header is one   *)
(* for the pulse and the contents are one per IDS, so a session that       *)
(* touches one IDS can take another one away.                              *)
(***************************************************************************)
ReadsBack ==
  master # NoMaster =>
    LET reader == IF session.open THEN session.reader ELSE master
    IN  \A i \in IDSs : mixed[i] = {} => files[i].held[reader] = stored[i]

(***************************************************************************)
(* The pulse as its users see it: what the installed reader finds of each  *)
(* IDS that no session wrote across versions.                              *)
(***************************************************************************)
Readable == {i \in IDSs : mixed[i] = {}}

Found(i) ==
  IF master = NoMaster THEN << >>
  ELSE files[i].held[IF session.open THEN session.reader ELSE master]

Map == INSTANCE PulseMap WITH contents <- [i \in Readable |-> Found(i)], last <- writes

(***************************************************************************)
(* The backend implements a map from IDSs to contents: an operation on one *)
(* IDS changes what is read of that IDS only, be it refused, lost halfway  *)
(* or a conversion, and no change of the header or of the reader           *)
(* (HDF5Backend::getVersion(), closePulse()) changes what is read.         *)
(***************************************************************************)
MapSpec == Map!Spec

(***************************************************************************)
(* A conversion writes every IDS it touches from scratch, the second one   *)
(* as well as the first: no version 1 datasets beside version 2 tables     *)
(* (the comment in HDF5Backend::beginAction()).                            *)
(***************************************************************************)
NoTablesBeside ==
  [][\A i \in IDSs :
       session.converting /\ files'[i] # files[i] => files'[i].held[2] = << >>]_vars

(***************************************************************************)
(* A file of an IDS is linked: FORCE_CREATE_PULSE and deleteData() go by   *)
(* the links of the master file, and a file without one would outlive both.*)
(***************************************************************************)
FilesLinked == \A i \in IDSs : files[i].exists => i \in links

(***************************************************************************)
(* hdf5_backend.h: a conversion drops the version 2 storage with its next  *)
(* write "and closePulse() re-annotates the pulse as 1.0".                 *)
(***************************************************************************)
ConvertedIsLabelled ==
  [][session.open /\ ~session'.open /\ session.converting /\ session.wrote
     => master' = 1]_vars
===============================================================================
