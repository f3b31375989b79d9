-------------------------- MODULE PulseSession_proofs --------------------------
(***************************************************************************)
(* What PulseSession guarantees for every set of IDSs, whatever the two    *)
(* switches allow.                                                         *)
(*                                                                         *)
(* The argument.  ReadsBack needs to know that a session that reads one    *)
(* version and writes the other one marks what it writes, and that no      *)
(* session changes the header of the pulse: getVersion() follows every     *)
(* write and takes the conversion back to "not applied" (SessionInv).  An  *)
(* IDS that is not marked has no file without content of the version of    *)
(* the pulse (Filled), so no slice of it is lost.                          *)
(*                                                                         *)
(* That a pulse is a map (PulseIsMap) follows step by step: a session      *)
(* begins and ends as a stutter, for its reader follows the header, and an *)
(* operation leaves the files of the other IDSs alone.                     *)
(***************************************************************************)
EXTENDS PulseSession, TLAPS

-------------------------------------------------------------------------------
Files == [exists : BOOLEAN, held : [Versions -> Seq(Nat)]]

Sessions ==
  [open : BOOLEAN, mode : Modes, target : Versions, reader : Versions,
   converting : BOOLEAN, applied : BOOLEAN, wrote : BOOLEAN]

Types ==
  /\ master \in Versions \union {NoMaster}
  /\ links \subseteq IDSs
  /\ files \in [IDSs -> Files]
  /\ session \in Sessions
  /\ stored \in [IDSs -> Seq(Nat)]
  /\ mixed \in [IDSs -> SUBSET {"upgrade", "conversion"}]
  /\ writes \in Nat

\* A file that does not exist holds nothing.
NothingHeld ==
  \A i \in IDSs, v \in Versions : files[i].held[v] # << >> => files[i].exists

SessionInv ==
  /\ session.open => master # NoMaster /\ session.reader = master
  /\ ~session.applied
  /\ session.converting => session.open
  /\ session.converting => /\ session.target < session.reader
                           /\ session.mode \in {"open", "force_open"}

Stored ==
  master # NoMaster =>
    \A i \in IDSs : mixed[i] = {} => files[i].held[master] = stored[i]

Filled ==
  master # NoMaster =>
    \A i \in IDSs : mixed[i] = {} /\ files[i].exists => files[i].held[master] # << >>

IInv == Types /\ NothingHeld /\ FilesLinked /\ SessionInv /\ Stored /\ Filled

(***************************************************************************)
(* getVersion() leaves no conversion applied.                              *)
(***************************************************************************)
LEMMA GetVersionIs ==
  ASSUME NEW s \in Sessions, master' \in Versions,
         s.applied => s.converting,
         s.converting => /\ s.target < s.reader /\ s.reader = master'
                         /\ s.mode \in {"open", "force_open"}
  PROVE  LET r == GetVersion(s)
         IN  /\ r \in Sessions
             /\ r.open = s.open /\ r.target = s.target
             /\ r.reader = master'
             /\ ~r.applied
             /\ r.converting => r.target < r.reader /\ r.mode \in {"open", "force_open"}
<1>. DEFINE converts == s.mode \in {"open", "force_open"} /\ s.target < master'
            r == GetVersion(s)
<1>1. /\ r.open = s.open /\ r.mode = s.mode /\ r.target = s.target
      /\ r.reader = master' /\ r.wrote = s.wrote
      /\ DOMAIN r = DOMAIN s
  BY DEF GetVersion, Sessions
<1>2. r.converting = (s.converting \/ converts)
  BY Zenon DEF GetVersion, Sessions
<1>3. r.applied = (s.applied /\ ~converts)
  BY Zenon DEF GetVersion, Sessions
<1>4. r \in Sessions
  BY <1>1, <1>2, <1>3 DEF GetVersion, Sessions
<1>5. s.converting => converts
  BY DEF Sessions
<1>6. ~r.applied
  BY <1>3, <1>5
<1>7. r.converting => converts
  BY <1>2, <1>5
<1>. HIDE DEF r
<1>8. r.converting => r.target < r.reader /\ r.mode \in {"open", "force_open"}
  BY <1>1, <1>7
<1>. QED
  BY <1>1, <1>4, <1>6, <1>8 DEF r

\* A pulse that does not exist yet satisfies the inductive invariant.
THEOREM Start == Init => IInv
<1>. SUFFICES ASSUME Init PROVE IInv
  OBVIOUS
<1>1. NoFile \in Files /\ NoSession \in Sessions
  BY DEF NoFile, Files, NoSession, Sessions, Modes, Versions
<1>2. Types
  BY <1>1 DEF Init, Types
<1>. QED
  BY <1>2 DEF Init, IInv, NothingHeld, FilesLinked, SessionInv, Stored, Filled, NoFile,
     NoSession

-------------------------------------------------------------------------------
(***************************************************************************)
(* al_begin_dataentry_action(): the pulse is kept as it is, or it is new   *)
(* and holds nothing.                                                      *)
(***************************************************************************)
LEMMA BeginDataentryKeeps ==
  ASSUME IInv, NEW mode \in Modes, NEW target \in Versions, BeginDataentry(mode, target)
  PROVE  IInv'
<1>. DEFINE s == [NoSession EXCEPT !.open = TRUE, !.mode = mode, !.target = target]
<1>. USE DEF IInv
<1>1. master' \in Versions
  BY DEF BeginDataentry, OpenMaster, CreateMaster, Types
<1>2. /\ s \in Sessions /\ s.open /\ ~s.applied /\ ~s.converting
  BY DEF NoSession, Sessions, Versions, Modes
<1>3. session' = GetVersion(s)
  BY DEF BeginDataentry
<1>. HIDE DEF s
<1>4. session' \in Sessions /\ SessionInv'
  BY <1>1, <1>2, <1>3, GetVersionIs DEF SessionInv, Versions, NoMaster
<1>5. CASE OpenMaster(mode)
  BY <1>4, <1>5 DEF BeginDataentry, OpenMaster, Types, NothingHeld, FilesLinked, Stored,
     Filled
<1>6. CASE CreateMaster(mode, target)
  <2>1. \A i \in IDSs : files'[i] \in Files /\ ~files'[i].exists
                        /\ \A v \in Versions : files'[i].held[v] = << >>
    BY <1>6 DEF CreateMaster, Emptied, NoFile, Files, Types, NothingHeld, FilesLinked
  <2>2. files' \in [IDSs -> Files]
    BY <1>6, <2>1 DEF CreateMaster, Emptied
  <2>3. Types'
    BY <1>1, <1>4, <1>6, <2>2 DEF CreateMaster, BeginDataentry, Types
  <2>. QED
    BY <1>1, <1>4, <1>6, <2>1, <2>3
    DEF CreateMaster, NothingHeld, FilesLinked, Stored, Filled
<1>. QED
  BY <1>5, <1>6 DEF BeginDataentry

\* closePulse() forgets the session and leaves the files alone.
LEMMA ClosePulseKeeps ==
  ASSUME IInv, ClosePulse
  PROVE  IInv'
<1>. USE DEF IInv
<1>1. master' = master
  BY DEF ClosePulse, SessionInv
<1>2. NoSession \in Sessions
  BY DEF NoSession, Sessions, Modes, Versions
<1>3. SessionInv'
  BY DEF ClosePulse, SessionInv, NoSession
<1>. QED
  BY <1>1, <1>2, <1>3 DEF ClosePulse, Types, NothingHeld, FilesLinked, Stored, Filled

-------------------------------------------------------------------------------
(***************************************************************************)
(* The begin of a write: the header and the target stay, the reader is     *)
(* still the one of the header, and only a conversion drops.               *)
(***************************************************************************)
LEMMA BeginWriteIs ==
  ASSUME IInv, NEW i \in IDSs, BeginWrite(i)
  PROVE  /\ master' = master /\ master \in Versions
         /\ session.open /\ session.reader = master
         /\ session' \in Sessions /\ SessionInv'
         /\ writes' \in Nat
         /\ links' = links \union {i} /\ links' \subseteq IDSs
         /\ Drops = session.converting
         /\ Prepared(i) \in Files
         /\ session.reader = session.target => Prepared(i) = files[i]
         /\ \A v \in Versions : Prepared(i).held[v] # << >> => Prepared(i).exists
<1>. DEFINE s == [session EXCEPT !.applied = @ \/ Drops, !.wrote = TRUE]
<1>. USE DEF IInv
<1>1. /\ master' = master /\ master \in Versions
      /\ session.open /\ session.reader = master /\ session \in Sessions
  BY DEF BeginWrite, SessionInv, Types
<1>2. Drops = session.converting
  BY <1>1, Zenon DEF Drops, SessionInv, Sessions
<1>3. s.applied = (session.applied \/ Drops)
  BY <1>1, Zenon DEF Sessions
<1>4. /\ s.open = session.open /\ s.mode = session.mode /\ s.target = session.target
      /\ s.reader = session.reader /\ s.wrote = TRUE
      /\ s.converting = session.converting
      /\ DOMAIN s = DOMAIN session
  BY <1>1 DEF Sessions
<1>5. s \in Sessions
  BY <1>1, <1>2, <1>3, <1>4 DEF Sessions
<1>6. s.applied => s.converting
  BY <1>2, <1>3, <1>4 DEF SessionInv
<1>7. session' = GetVersion(s)
  BY DEF BeginWrite
<1>. HIDE DEF s
<1>8. session' \in Sessions /\ SessionInv'
  BY <1>1, <1>4, <1>5, <1>6, <1>7, GetVersionIs DEF SessionInv, Versions, NoMaster
<1>9. session.reader = session.target => ~session.converting
  BY <1>1 DEF SessionInv, Sessions, Versions
<1>10. NoFile \in Files
  BY DEF NoFile, Files
<1>11. /\ Prepared(i) \in Files
       /\ session.reader = session.target => Prepared(i) = files[i]
       /\ \A v \in Versions : Prepared(i).held[v] # << >> => Prepared(i).exists
  BY <1>2, <1>9, <1>10 DEF Prepared, Types, NothingHeld, NoFile
<1>. QED
  BY <1>1, <1>2, <1>8, <1>11 DEF BeginWrite, Types

(***************************************************************************)
(* A write that leaves file f in the place of the file of IDS i, and the   *)
(* history that goes with it, keeps IInv when f agrees with that history.  *)
(***************************************************************************)
LEMMA WriteKeeps ==
  ASSUME IInv, NEW i \in IDSs, BeginWrite(i),
         NEW f \in Files, NEW held \in Seq(Nat), NEW marks \in SUBSET {"upgrade", "conversion"},
         files' = [files EXCEPT ![i] = f],
         stored' = [stored EXCEPT ![i] = held],
         mixed' = [mixed EXCEPT ![i] = marks],
         \A v \in Versions : f.held[v] # << >> => f.exists,
         marks = {} => f.held[master] = held,
         marks = {} /\ f.exists => f.held[master] # << >>
  PROVE  IInv'
<1>. USE DEF IInv
<1>1. /\ master' = master /\ master \in Versions
      /\ session' \in Sessions /\ SessionInv' /\ writes' \in Nat
      /\ links' = links \union {i} /\ links' \subseteq IDSs
  BY BeginWriteIs
<1>2. Types'
  BY <1>1 DEF Types
<1>3. NothingHeld'
  BY DEF NothingHeld, Types
<1>4. FilesLinked'
  BY <1>1 DEF FilesLinked, Types
<1>5. Stored'
  BY <1>1 DEF Stored, Types
<1>6. Filled'
  BY <1>1 DEF Filled, Types
<1>. QED
  BY <1>1, <1>2, <1>3, <1>4, <1>5, <1>6

\* Who is not marked reads the version it writes.
LEMMA MarkedIs ==
  ASSUME IInv, NEW i \in IDSs, session.reader \in Versions
  PROVE  /\ Marked(i) = [mixed EXCEPT ![i] = Marked(i)[i]]
         /\ Marked(i)[i] \in SUBSET {"upgrade", "conversion"}
         /\ Marked(i)[i] = {} => mixed[i] = {} /\ session.reader = session.target
<1>1. mixed \in [IDSs -> SUBSET {"upgrade", "conversion"}] /\ session.target \in Versions
  BY DEF IInv, Types, Sessions
<1>2. Marked(i)[i] = {} => ~(session.reader < session.target)
                           /\ ~(session.reader > session.target)
  BY <1>1 DEF Marked
<1>. QED
  BY <1>1, <1>2 DEF Marked, Versions

\* What a writer leaves in a file it puts content x of version v into.
LEMMA FileWith ==
  ASSUME NEW file \in Files, NEW v \in Versions, NEW x \in Seq(Nat)
  PROVE  LET h == [file.held EXCEPT ![v] = x]
         IN  [exists |-> TRUE, held |-> h] \in Files /\ h[v] = x
BY DEF Files

\* A put replaces the file of its IDS, or adds to it in the other version.
LEMMA GlobalWriteKeeps ==
  ASSUME IInv, NEW i \in IDSs, GlobalWrite(i)
  PROVE  IInv'
<1>. DEFINE v == session.target
            file == [Prepared(i) EXCEPT !.exists = TRUE]
            fails == v = 1 /\ file.held[1] # << >>
            f == IF fails THEN file ELSE [file EXCEPT !.held[v] = <<writes'>>]
            held == IF fails THEN stored[i] ELSE <<writes'>>
            marks == IF ~fails /\ session.reader = v THEN {} ELSE Marked(i)[i]
<1>. USE DEF IInv
<1>1. BeginWrite(i)
  BY DEF GlobalWrite
<1>2. /\ master \in Versions /\ session.reader = master
      /\ writes' \in Nat /\ Prepared(i) \in Files
      /\ session.reader = session.target => Prepared(i) = files[i]
  BY <1>1, BeginWriteIs
<1>3. v \in Versions /\ stored[i] \in Seq(Nat)
  BY DEF Types, Sessions
<1>4. file \in Files /\ file.exists /\ file.held = Prepared(i).held
  BY <1>2 DEF Files
<1>5. ~fails => f \in Files /\ f.exists /\ f.held[v] = <<writes'>>
  <2>1. <<writes'>> \in Seq(Nat)
    BY <1>2
  <2>2. ~fails => f = [exists |-> TRUE, held |-> [file.held EXCEPT ![v] = <<writes'>>]]
    BY <1>4 DEF Files
  <2>. DEFINE x == <<writes'>>
  <2>. HIDE DEF f, file, x, v
  <2>3. ASSUME ~fails PROVE f \in Files /\ f.exists /\ f.held[v] = x
    <3>1. f = [exists |-> TRUE, held |-> [file.held EXCEPT ![v] = x]]
      BY <2>2, <2>3 DEF x
    <3>2. x \in Seq(Nat)
      BY <2>1 DEF x
    <3>3. file \in Files /\ v \in Versions
      BY <1>3, <1>4
    <3>. QED
      BY <3>1, <3>2, <3>3, FileWith
  <2>. QED
    BY <2>3 DEF x
<1>6. f \in Files /\ f.exists
  BY <1>4, <1>5
<1>7. held \in Seq(Nat)
  BY <1>2, <1>3
<1>8. /\ Marked(i) = [mixed EXCEPT ![i] = Marked(i)[i]]
      /\ marks \in SUBSET {"upgrade", "conversion"}
      /\ marks = {} => session.reader = v /\ (fails => mixed[i] = {})
  BY <1>2, MarkedIs
<1>9. /\ files' = [files EXCEPT ![i] = f]
      /\ stored' = [stored EXCEPT ![i] = held]
      /\ mixed' = [mixed EXCEPT ![i] = marks]
  <2>1. stored = [stored EXCEPT ![i] = stored[i]]
    BY DEF Types
  <2>. HIDE DEF IInv
  <2>. QED
    BY <1>8, <2>1 DEF GlobalWrite
<1>10. fails /\ marks = {} => f.held[master] = stored[i] /\ f.held[master] # << >>
  BY <1>2, <1>4, <1>8 DEF Stored, Versions, NoMaster
<1>11. ~fails /\ marks = {} => f.held[master] = <<writes'>>
  BY <1>2, <1>5, <1>8
<1>12. <<writes'>> # << >>
  OBVIOUS
<1>. HIDE DEF f, held, marks, fails, IInv
<1>13. /\ marks = {} => f.held[master] = held
       /\ marks = {} /\ f.exists => f.held[master] # << >>
  BY <1>10, <1>11, <1>12 DEF held
<1>. QED
  BY <1>1, <1>6, <1>7, <1>8, <1>9, <1>13, WriteKeeps

\* A put_slice extends what the file of its IDS holds.
LEMMA SliceWriteKeeps ==
  ASSUME IInv, NEW i \in IDSs, SliceWrite(i)
  PROVE  IInv'
<1>. DEFINE v == session.target
            file == Prepared(i)
            lost == v = 2 /\ file.exists /\ file.held[2] = << >>
            f == IF lost THEN file
                 ELSE [file EXCEPT !.exists = TRUE, !.held[v] = Append(@, writes')]
            held == Append(stored[i], writes')
            marks == Marked(i)[i]
<1>. USE DEF IInv
<1>1. BeginWrite(i)
  BY DEF SliceWrite
<1>2. /\ master \in Versions /\ session.reader = master
      /\ writes' \in Nat /\ file \in Files
      /\ session.reader = session.target => file = files[i]
      /\ \A u \in Versions : file.held[u] # << >> => file.exists
  BY <1>1, BeginWriteIs
<1>3. v \in Versions /\ stored[i] \in Seq(Nat) /\ file.held[v] \in Seq(Nat)
  BY <1>2 DEF Types, Sessions, Files
<1>4. ~lost => f \in Files /\ f.exists /\ f.held[v] = Append(file.held[v], writes')
  <2>. DEFINE x == Append(file.held[v], writes')
  <2>1. x \in Seq(Nat)
    BY <1>2, <1>3
  <2>2. ~lost => f = [exists |-> TRUE, held |-> [file.held EXCEPT ![v] = x]]
    BY <1>2 DEF Files
  <2>. HIDE DEF f, file, x, v
  <2>3. ASSUME ~lost PROVE f \in Files /\ f.exists /\ f.held[v] = x
    <3>1. f = [exists |-> TRUE, held |-> [file.held EXCEPT ![v] = x]]
      BY <2>2, <2>3
    <3>. QED
      BY <1>2, <1>3, <2>1, <3>1, FileWith
  <2>. QED
    BY <2>3 DEF x
<1>5. /\ f \in Files
      /\ \A u \in Versions : f.held[u] # << >> => f.exists
  BY <1>2, <1>4
<1>6. held \in Seq(Nat) /\ held # << >>
  BY <1>2, <1>3
<1>7. /\ Marked(i) = [mixed EXCEPT ![i] = marks]
      /\ marks \in SUBSET {"upgrade", "conversion"}
      /\ marks = {} => mixed[i] = {} /\ session.reader = v
  BY <1>2, MarkedIs
<1>8. /\ files' = [files EXCEPT ![i] = f]
      /\ stored' = [stored EXCEPT ![i] = held]
      /\ mixed' = [mixed EXCEPT ![i] = marks]
  <2>1. stored \in [IDSs -> Seq(Nat)]
    BY DEF Types
  <2>. HIDE DEF IInv
  <2>. QED
    BY <1>7, <2>1 DEF SliceWrite
<1>9. marks = {} => ~lost /\ file.held[v] = stored[i]
  BY <1>2, <1>7 DEF Stored, Filled, Versions, NoMaster
<1>. HIDE DEF f, held, marks, lost, file, IInv
<1>10. marks = {} => f.held[master] = held
  BY <1>2, <1>4, <1>7, <1>9 DEF held
<1>. QED
  BY <1>1, <1>5, <1>6, <1>7, <1>8, <1>10, WriteKeeps

\* deleteData() removes the file of the IDS.
LEMMA DeleteDataKeeps ==
  ASSUME IInv, NEW i \in IDSs, DeleteData(i)
  PROVE  IInv'
<1>1. BeginWrite(i) /\ master \in Versions
  BY BeginWriteIs DEF DeleteData
<1>2. /\ NoFile \in Files /\ ~NoFile.exists
      /\ \A v \in Versions : NoFile.held[v] = << >>
      /\ << >> \in Seq(Nat)
  BY DEF NoFile, Files
<1>3. /\ files' = [files EXCEPT ![i] = NoFile]
      /\ stored' = [stored EXCEPT ![i] = << >>]
      /\ mixed' = [mixed EXCEPT ![i] = {}]
  BY DEF DeleteData
<1>. QED
  BY <1>1, <1>2, <1>3, WriteKeeps

-------------------------------------------------------------------------------
\* Every step keeps the inductive invariant.
THEOREM Step == IInv /\ [Next]_vars => IInv'
<1>. SUFFICES ASSUME IInv, [Next]_vars
              PROVE  IInv'
  OBVIOUS
<1>1. ASSUME NEW mode \in Modes, NEW target \in Versions, BeginDataentry(mode, target)
      PROVE  IInv'
  BY <1>1, BeginDataentryKeeps
<1>2. CASE ClosePulse
  BY <1>2, ClosePulseKeeps
<1>3. ASSUME NEW i \in IDSs, GlobalWrite(i) PROVE IInv'
  BY <1>3, GlobalWriteKeeps
<1>4. ASSUME NEW i \in IDSs, SliceWrite(i) PROVE IInv'
  BY <1>4, SliceWriteKeeps
<1>5. ASSUME NEW i \in IDSs, DeleteData(i) PROVE IInv'
  BY <1>5, DeleteDataKeeps
<1>6. CASE UNCHANGED vars
  BY <1>6 DEF vars, IInv, Types, NothingHeld, FilesLinked, SessionInv, Stored, Filled
<1>. QED
  BY <1>1, <1>2, <1>3, <1>4, <1>5, <1>6 DEF Next

\* The inductive invariant gives the type and the two safety invariants.
LEMMA Implied == IInv => TypeOK /\ ReadsBack /\ FilesLinked
<1>. SUFFICES ASSUME IInv PROVE TypeOK /\ ReadsBack /\ FilesLinked
  OBVIOUS
<1>1. TypeOK
  BY DEF IInv, Types, NothingHeld, SessionInv, TypeOK, Files, Sessions
<1>2. ReadsBack
  BY DEF IInv, Stored, SessionInv, ReadsBack
<1>. QED
  BY <1>1, <1>2 DEF IInv

(***************************************************************************)
(* The types of the variables, and the shape of a session: an open one has *)
(* a master file, and only a conversion is applied.                        *)
(***************************************************************************)
THEOREM TypeCorrect == Spec => []TypeOK
BY Start, Step, Implied, PTL DEF Spec

(***************************************************************************)
(* Whatever versions the sessions of a pulse have, an IDS that none of     *)
(* them wrote across versions reads back as it was last stored.            *)
(***************************************************************************)
THEOREM SessionsReadBack == Spec => []ReadsBack
BY Start, Step, Implied, PTL DEF Spec

(***************************************************************************)
(* A file of an IDS is always one the master file links, through upgrades, *)
(* conversions and deletions: no session writes what a reader cannot find. *)
(***************************************************************************)
THEOREM FilesAreLinked == Spec => []FilesLinked
BY Start, Step, Implied, PTL DEF Spec

(***************************************************************************)
(* A conversion leaves no version 2 table in any IDS it writes.            *)
(***************************************************************************)
THEOREM ConversionLeavesNoTables == Spec => NoTablesBeside
<1>1. ASSUME IInv, Next, NEW i \in IDSs, session.converting, files'[i] # files[i]
      PROVE  files'[i].held[2] = << >>
  <2>. USE DEF IInv
  <2>1. session.target = 1
    BY <1>1 DEF SessionInv, Types, Sessions, Versions
  <2>2. session \in Sessions /\ files \in [IDSs -> Files]
    BY <1>1 DEF Types
  <2>3. ASSUME NEW k \in IDSs, BeginWrite(k) PROVE Prepared(k) = NoFile
    BY <1>1, <2>3, BeginWriteIs DEF Prepared
  <2>4. CASE \E k \in IDSs : DeleteData(k)
    BY <1>1, <2>2, <2>4 DEF DeleteData, NoFile, Versions
  <2>5. CASE \E k \in IDSs : GlobalWrite(k)
    <3>1. PICK k \in IDSs : GlobalWrite(k)
      BY <2>5
    <3>2. Prepared(k) = NoFile
      BY <2>3, <3>1 DEF GlobalWrite
    <3>3. i = k
      BY <1>1, <2>2, <3>1 DEF GlobalWrite
    <3>. QED
      BY <2>1, <2>2, <3>1, <3>2, <3>3 DEF GlobalWrite, NoFile, Versions
  <2>6. CASE \E k \in IDSs : SliceWrite(k)
    <3>1. PICK k \in IDSs : SliceWrite(k)
      BY <2>6
    <3>2. Prepared(k) = NoFile
      BY <2>3, <3>1 DEF SliceWrite
    <3>3. i = k
      BY <1>1, <2>2, <3>1 DEF SliceWrite
    <3>. QED
      BY <2>1, <2>2, <3>1, <3>2, <3>3 DEF SliceWrite, NoFile, Versions
  <2>7. CASE ClosePulse
    BY <1>1, <2>7 DEF ClosePulse
  <2>8. CASE \E mode \in Modes, target \in Versions : BeginDataentry(mode, target)
    <3>1. ~session.open
      BY <2>8 DEF BeginDataentry
    <3>. QED
      BY <1>1, <3>1 DEF SessionInv
  <2>. QED
    BY <1>1, <2>4, <2>5, <2>6, <2>7, <2>8 DEF Next
<1>2. IInv /\ [Next]_vars =>
        [\A i \in IDSs :
           session.converting /\ files'[i] # files[i] => files'[i].held[2] = << >>]_vars
  BY <1>1
<1>. QED
  BY <1>2, Start, Step, PTL DEF Spec, NoTablesBeside

-------------------------------------------------------------------------------
(***************************************************************************)
(* The refinement.  contents is the function the mapping gives the map.    *)
(***************************************************************************)
Contents == [i \in Readable |-> Found(i)]

LEMMA ContentsAre ==
  ASSUME IInv
  PROVE  /\ DOMAIN Contents = Readable /\ Readable \subseteq IDSs
         /\ \A i \in Readable :
              Contents[i] = IF master = NoMaster THEN << >> ELSE stored[i]
BY DEF IInv, Contents, Readable, Found, Stored, SessionInv

\* A write of i that leaves it in the map, holding x.
LEMMA ContentsReplaced ==
  ASSUME IInv, IInv', NEW i \in IDSs, NEW x, master # NoMaster, master' # NoMaster,
         stored' = [stored EXCEPT ![i] = x], mixed' = [mixed EXCEPT ![i] = {}]
  PROVE  Contents' = [j \in DOMAIN Contents \union {i} |->
                        IF j = i THEN x ELSE Contents[j]]
<1>1. /\ stored \in [IDSs -> Seq(Nat)]
      /\ mixed \in [IDSs -> SUBSET {"upgrade", "conversion"}]
  BY DEF IInv, Types
<1>2. Readable' = Readable \union {i}
  BY <1>1 DEF Readable
<1>3. \A j \in Readable' : Contents'[j] = stored'[j]
  BY ContentsAre DEF IInv, Contents, Readable, Found, Stored, SessionInv
<1>4. \A j \in Readable : Contents[j] = stored[j]
  BY ContentsAre
<1>5. \A j \in Readable' : Contents'[j] = IF j = i THEN x ELSE Contents[j]
  BY <1>1, <1>2, <1>3, <1>4 DEF Readable
<1>6. Contents' = [j \in Readable' |-> Contents'[j]]
  BY DEF Contents
<1>. QED
  BY <1>2, <1>5, <1>6, ContentsAre

\* A write of i that marks it.
LEMMA ContentsBlurred ==
  ASSUME IInv, IInv', NEW i \in IDSs, NEW x, NEW marks, marks # {},
         master # NoMaster, master' # NoMaster,
         stored' = [stored EXCEPT ![i] = x], mixed' = [mixed EXCEPT ![i] = marks]
  PROVE  Contents' = [j \in DOMAIN Contents \ {i} |-> Contents[j]]
<1>1. /\ stored \in [IDSs -> Seq(Nat)]
      /\ mixed \in [IDSs -> SUBSET {"upgrade", "conversion"}]
  BY DEF IInv, Types
<1>2. Readable' = Readable \ {i}
  BY <1>1 DEF Readable
<1>3. \A j \in Readable' : Contents'[j] = stored'[j]
  BY DEF IInv, Contents, Readable, Found, Stored, SessionInv
<1>4. \A j \in Readable : Contents[j] = stored[j]
  BY ContentsAre
<1>5. \A j \in Readable' : Contents'[j] = Contents[j]
  BY <1>1, <1>2, <1>3, <1>4 DEF Readable
<1>6. Contents' = [j \in Readable' |-> Contents'[j]]
  BY DEF Contents
<1>. QED
  BY <1>2, <1>5, <1>6, ContentsAre

LEMMA MapBegins == Init => Map!Init
BY DEF Init, Map!Init, Readable, Found

\* A session that begins keeps what is there, or starts a new map.
LEMMA BeginDataentryMaps ==
  ASSUME IInv, IInv', NEW mode \in Modes, NEW target \in Versions,
         BeginDataentry(mode, target)
  PROVE  Map!CreateAnew \/ (Contents' = Contents /\ writes' = writes)
<1>1. CASE OpenMaster(mode)
  <2>1. /\ master' = master /\ master # NoMaster /\ mixed' = mixed /\ stored' = stored
        /\ writes' = writes
    BY <1>1 DEF OpenMaster, BeginDataentry
  <2>2. Readable' = Readable
    BY <2>1 DEF Readable
  <2>3. \A i \in Readable : Contents'[i] = stored[i] /\ Contents[i] = stored[i]
    BY <2>1, <2>2 DEF IInv, Contents, Readable, Found, Stored, SessionInv
  <2>. QED
    BY <2>1, <2>2, <2>3 DEF Contents
<1>2. CASE CreateMaster(mode, target)
  <2>1. /\ master' # NoMaster /\ writes' = writes
        /\ stored' = [i \in IDSs |-> << >>] /\ mixed' = [i \in IDSs |-> {}]
    BY <1>2 DEF CreateMaster, BeginDataentry, Versions, NoMaster
  <2>2. Readable' = IDSs
    BY <2>1 DEF Readable
  <2>3. \A i \in IDSs : Found(i)' = << >>
    BY <2>1, <2>2 DEF IInv, Found, Stored, SessionInv
  <2>. QED
    BY <2>1, <2>2, <2>3 DEF Map!CreateAnew
<1>. QED
  BY <1>1, <1>2 DEF BeginDataentry

\* The end of a session changes nothing that can be read.
LEMMA ClosePulseMaps ==
  ASSUME IInv, IInv', ClosePulse
  PROVE  Contents' = Contents /\ writes' = writes
<1>1. /\ master' = master /\ master # NoMaster /\ session.reader = master
      /\ ~session'.open
      /\ files' = files /\ mixed' = mixed /\ writes' = writes
  BY DEF ClosePulse, IInv, SessionInv, NoSession
<1>. QED
  BY <1>1 DEF Contents, Readable, Found

\* A put that is stored is a Put or a Blur, one that is not a Refuse or a Blur.
LEMMA GlobalWriteMaps ==
  ASSUME IInv, IInv', NEW i \in IDSs, GlobalWrite(i)
  PROVE  Map!Put(i) \/ Map!Blur(i) \/ Map!Refuse
<1>. DEFINE v == session.target
            file == [Prepared(i) EXCEPT !.exists = TRUE]
            fails == v = 1 /\ file.held[1] # << >>
            marks == Marked(i)[i]
<1>1. BeginWrite(i)
  BY DEF GlobalWrite
<1>2. /\ master # NoMaster /\ master' # NoMaster /\ session.reader \in Versions
      /\ writes' = writes + 1
  BY <1>1, BeginWriteIs DEF Versions, NoMaster, BeginWrite
<1>3. /\ Marked(i) = [mixed EXCEPT ![i] = marks]
      /\ marks = {} => mixed[i] = {}
  BY <1>2, MarkedIs
<1>4. /\ stored \in [IDSs -> Seq(Nat)]
      /\ mixed \in [IDSs -> SUBSET {"upgrade", "conversion"}]
  BY DEF IInv, Types
<1>5. /\ stored' = IF fails THEN stored ELSE [stored EXCEPT ![i] = <<writes'>>]
      /\ mixed' = IF ~fails /\ session.reader = v THEN [mixed EXCEPT ![i] = {}]
                  ELSE Marked(i)
  BY DEF GlobalWrite
<1>. HIDE DEF fails, marks, v
<1>6. CASE ~fails /\ session.reader = v
  <2>1. Contents' = [j \in DOMAIN Contents \union {i} |->
                       IF j = i THEN <<writes'>> ELSE Contents[j]]
    BY <1>2, <1>5, <1>6, ContentsReplaced
  <2>. QED
    BY <1>2, <2>1 DEF Map!Put, Map!Replace, Contents
<1>7. CASE ~(~fails /\ session.reader = v) /\ marks # {}
  <2>1. PICK x : stored' = [stored EXCEPT ![i] = x]
    <3>1. stored = [stored EXCEPT ![i] = stored[i]]
      BY <1>4
    <3>. QED
      BY <1>5, <3>1
  <2>2. Contents' = [j \in DOMAIN Contents \ {i} |-> Contents[j]]
    BY <1>2, <1>3, <1>5, <1>7, <2>1, ContentsBlurred
  <2>. QED
    BY <1>2, <2>2 DEF Map!Blur, Contents
<1>8. CASE ~(~fails /\ session.reader = v) /\ marks = {}
  <2>1. session.reader = v
    BY <1>2, <1>8, MarkedIs DEF marks, v
  <2>2. stored' = stored /\ mixed' = mixed
    BY <1>3, <1>4, <1>5, <1>8, <2>1
  <2>3. Readable' = Readable
    BY <2>2 DEF Readable
  <2>4. \A j \in Readable : Found(j)' = stored[j] /\ Found(j) = stored[j]
    BY <1>2, <2>2, <2>3 DEF IInv, Readable, Found, Stored, SessionInv
  <2>. QED
    BY <1>2, <2>3, <2>4 DEF Map!Refuse
<1>. QED
  BY <1>6, <1>7, <1>8

\* A slice of an IDS in the map extends it; across versions it takes it out.
LEMMA SliceWriteMaps ==
  ASSUME IInv, IInv', NEW i \in IDSs, SliceWrite(i)
  PROVE  Map!Extend(i) \/ Map!Blur(i)
<1>. DEFINE marks == Marked(i)[i]
            x == Append(stored[i], writes')
<1>1. BeginWrite(i)
  BY DEF SliceWrite
<1>2. /\ master # NoMaster /\ master' # NoMaster /\ session.reader \in Versions
      /\ writes' = writes + 1
  BY <1>1, BeginWriteIs DEF Versions, NoMaster, BeginWrite
<1>3. /\ mixed' = [mixed EXCEPT ![i] = marks]
      /\ marks = {} => mixed[i] = {}
  BY <1>2, MarkedIs DEF SliceWrite
<1>4. stored \in [IDSs -> Seq(Nat)] /\ stored' = [stored EXCEPT ![i] = x]
  BY DEF IInv, Types, SliceWrite
<1>. HIDE DEF marks, x
<1>5. CASE marks # {}
  <2>1. Contents' = [j \in DOMAIN Contents \ {i} |-> Contents[j]]
    BY <1>2, <1>3, <1>4, <1>5, ContentsBlurred
  <2>. QED
    BY <1>2, <2>1 DEF Map!Blur, Contents
<1>6. CASE marks = {}
  <2>1. Contents' = [j \in DOMAIN Contents \union {i} |-> IF j = i THEN x ELSE Contents[j]]
    BY <1>2, <1>3, <1>4, <1>6, ContentsReplaced
  <2>2. i \in Readable
    BY <1>3, <1>6 DEF Readable
  <2>3. x = Append(Contents[i], writes')
    BY <1>2, <2>2, ContentsAre DEF x
  <2>. QED
    BY <1>2, <2>1, <2>2, <2>3, ContentsAre DEF Map!Extend, Map!Replace, Contents
<1>. QED
  BY <1>5, <1>6

LEMMA DeleteDataMaps ==
  ASSUME IInv, IInv', NEW i \in IDSs, DeleteData(i)
  PROVE  Map!Delete(i)
<1>1. /\ master # NoMaster /\ master' # NoMaster
      /\ writes' = writes + 1
  BY BeginWriteIs DEF DeleteData, Versions, NoMaster, BeginWrite
<1>2. Contents' = [j \in DOMAIN Contents \union {i} |->
                     IF j = i THEN << >> ELSE Contents[j]]
  BY <1>1, ContentsReplaced DEF DeleteData
<1>. QED
  BY <1>1, <1>2 DEF Map!Delete, Map!Replace, Contents

(***************************************************************************)
(* The sessions of a pulse implement a map from IDSs to contents: an       *)
(* operation changes what is read of its own IDS at most, and what the     *)
(* begin and the end of a session do to headers, links and readers cannot  *)
(* be seen, unless the pulse is created anew.                              *)
(***************************************************************************)
THEOREM PulseIsMap == Spec => MapSpec
<1>1. ASSUME IInv, IInv', [Next]_vars
      PROVE  [Map!Next]_<<Contents, writes>>
  <2>1. ASSUME NEW mode \in Modes, NEW target \in Versions, BeginDataentry(mode, target)
        PROVE  [Map!Next]_<<Contents, writes>>
    BY <1>1, <2>1, BeginDataentryMaps DEF Map!Next
  <2>2. CASE ClosePulse
    BY <1>1, <2>2, ClosePulseMaps
  <2>3. ASSUME NEW i \in IDSs, GlobalWrite(i) \/ SliceWrite(i) \/ DeleteData(i)
        PROVE  Map!Next
    BY <1>1, <2>3, GlobalWriteMaps, SliceWriteMaps, DeleteDataMaps DEF Map!Next
  <2>4. CASE UNCHANGED vars
    BY <2>4 DEF vars, Contents, Readable, Found
  <2>. QED
    BY <1>1, <2>1, <2>2, <2>3, <2>4 DEF Next
<1>2. [Map!Next]_<<Contents, writes>> => [Map!Next]_<<[i \in Readable |-> Found(i)], writes>>
  BY DEF Contents
<1>. QED
  BY <1>1, <1>2, Start, Step, MapBegins, PTL DEF Spec, MapSpec, Map!Spec

===============================================================================
