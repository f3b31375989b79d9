------------------------- MODULE MemoryEntries_proofs -------------------------
(***************************************************************************)
(* What the registry of the memory backend guarantees for every set of     *)
(* threads, entries and addresses.                                         *)
(*                                                                         *)
(* The argument.  Calls says which handle a thread is at, and that it is   *)
(* the only one there.  Registry says that ctxMap and the live contents    *)
(* are the inverse of each other, that an open handle has the content of   *)
(* its path, and that a handle about to be destroyed shares its content    *)
(* with nobody; the last part holds because the threads work on disjoint   *)
(* paths and no handle is closed while another one has its content.        *)
(* Counted adds that refCount is the number of open handles, which needs   *)
(* Registry: a new content has no holder yet, and the destructor's is the  *)
(* last one.  Owned says that whoever has the mutex of a content works on  *)
(* its path, so that nobody else ever waits for it.                        *)
(***************************************************************************)
EXTENDS MemoryEntries, FiniteSetTheorems, TLAPS

-------------------------------------------------------------------------------
ContentRecords ==
  [refs : Int, path : Paths \cup {None},
   owner : Threads \cup {None}, depth : Nat]

HandleRecords ==
  [user : Threads \cup {None}, path : Paths \cup {None}, ctx : Contents \cup {None},
   state : {"closed", "opening", "open", "failed"}]

CallRecords == [step : Steps, h : Handles \cup {None}, mode : Modes]

Critical == {"opening", "clearing", "destroying"}

Types ==
  /\ ctxMap \in [Paths -> Contents \cup {None}]
  /\ content \in [Contents -> ContentRecords]
  /\ handle \in [Handles -> HandleRecords]
  /\ global \in Threads \cup {None}
  /\ call \in [Threads -> CallRecords]
  /\ calls \in [Threads -> 0..MaxCalls]
  /\ wild \in BOOLEAN

\* The global mutex is held by the thread inside one of its critical sections.
Mutex == \A t \in Threads : global = t <=> call[t].step \in Critical

\* A thread in a call is the user of the handle it is at.
Calls ==
  /\ \A t \in Threads : call[t].step # "idle" =>
       /\ call[t].h \in Handles
       /\ handle[call[t].h].user = t
       /\ call[t].step \in {"open", "opening"} => handle[call[t].h].state = "opening"
       /\ call[t].step \in {"access", "clearing"} => handle[call[t].h].state = "open"
       /\ call[t].step \in {"destroy", "destroying"} =>
            handle[call[t].h].state \in {"open", "failed"}
  /\ \A h \in Handles : handle[h].state # "closed" =>
       /\ handle[h].user \in Threads
       /\ handle[h].path \in Paths
       /\ handle[h].path \in PathsOf[handle[h].user]
  /\ \A h \in Handles : handle[h].state = "open" => handle[h].ctx \in Contents

Registry ==
  /\ \A c \in Contents : Live(c) =>
       content[c].path \in Paths /\ ctxMap[content[c].path] = c
  /\ \A p \in Paths : ctxMap[p] # None =>
       Live(ctxMap[p]) /\ content[ctxMap[p]].path = p
  /\ \A h \in Handles : handle[h].state = "open" =>
       Live(handle[h].ctx) /\ content[handle[h].ctx].path = handle[h].path
  /\ \A t \in Threads : call[t].step \in {"destroy", "destroying"} =>
       handle[call[t].h].state = "open" /\ Others(call[t].h) = {}
  /\ ~wild

-------------------------------------------------------------------------------
\* The freed content, the closed handle and the idle call have their types.
LEMMA RecordTypes ==
  /\ Freed \in ContentRecords /\ Freed.path = None
  /\ Closed \in HandleRecords /\ Closed.state = "closed"
  /\ Idle \in CallRecords /\ Idle.step = "idle"
<1>1. Freed \in ContentRecords /\ Freed.path = None
  BY DEF Freed, ContentRecords
<1>2. Closed \in HandleRecords /\ Closed.state = "closed"
  BY DEF Closed, HandleRecords
<1>3. Idle \in CallRecords /\ Idle.step = "idle"
  BY DEF Idle, CallRecords, Steps, Modes
<1>. QED
  BY <1>1, <1>2, <1>3

\* The first state has its types; no thread is in openPulse() or the destructor.
LEMMA InitTypes == Init => Types /\ Mutex /\ Calls
<1>. SUFFICES ASSUME Init PROVE Types /\ Mutex /\ Calls
  OBVIOUS
<1>1. Types
  <2>1. 0 \in 0..MaxCalls
    BY MaxCallsAssumption
  <2>2. /\ ctxMap \in [Paths -> Contents \cup {None}]
        /\ content \in [Contents -> ContentRecords]
        /\ handle \in [Handles -> HandleRecords]
        /\ call \in [Threads -> CallRecords]
        /\ calls \in [Threads -> 0..MaxCalls]
    BY RecordTypes, <2>1 DEF Init
  <2>. QED
    BY <2>2 DEF Init, Types
<1>2. Mutex /\ Calls
  BY RecordTypes, NoneAssumption DEF Init, Mutex, Calls, Critical
<1>. QED
  BY <1>1, <1>2

\* Locking a content keeps its name and its references, and gives it an owner.
LEMMA LockIs ==
  ASSUME NEW x \in ContentRecords, NEW t \in Threads
  PROVE  /\ Lock(x, t) \in ContentRecords
         /\ Lock(x, t).path = x.path
         /\ Lock(x, t).refs = x.refs
<1>1. ASSUME NEW n \in Nat
      PROVE  LET y == [x EXCEPT !.owner = t, !.depth = n]
             IN  y \in ContentRecords /\ y.path = x.path /\ y.refs = x.refs
  BY DEF ContentRecords
<1>2. x.depth + 1 \in Nat
  BY DEF ContentRecords
<1>. QED
  BY <1>1, <1>2 DEF Lock

\* The record of a new content.
LEMMA NewIs ==
  ASSUME NEW x \in ContentRecords, NEW n \in Int, NEW p \in Paths
  PROVE  LET y == [x EXCEPT !.refs = n, !.path = p]
         IN  y \in ContentRecords /\ y.path = p
BY DEF ContentRecords

\* So does a lock followed by an unlock.
LEMMA UnlockIs ==
  ASSUME NEW x \in ContentRecords, NEW t \in Threads
  PROVE  /\ Unlock(Lock(x, t), t) \in ContentRecords
         /\ Unlock(Lock(x, t), t).path = x.path
         /\ Unlock(Lock(x, t), t).refs = x.refs
BY LockIs DEF Unlock

\* A thread goes on to a step; every other thread stays where it is.
LEMMA GoIs ==
  ASSUME Types, NEW t \in Threads, NEW step \in Steps, Go(t, step)
  PROVE  /\ call' \in [Threads -> CallRecords]
         /\ call'[t].step = step
         /\ \A u \in Threads : call'[u].h = call[u].h
         /\ \A u \in Threads : u # t => call'[u] = call[u]
BY DEF Go, Types, CallRecords

\* A handle gets a state and a content; every other handle keeps its own.
LEMMA HandleIs ==
  ASSUME Types, NEW h \in Handles, NEW c \in Contents \cup {None},
         NEW state \in {"closed", "opening", "open", "failed"},
         handle' = [handle EXCEPT ![h].state = state, ![h].ctx = c]
  PROVE  /\ handle' \in [Handles -> HandleRecords]
         /\ handle'[h].state = state /\ handle'[h].ctx = c
         /\ handle'[h].user = handle[h].user /\ handle'[h].path = handle[h].path
         /\ \A k \in Handles : k # h => handle'[k] = handle[k]
BY DEF Types, HandleRecords

(***************************************************************************)
(* openPulse() with the path free or taken.                                *)
(***************************************************************************)
LEMMA OpeningTypes ==
  ASSUME Types, Mutex, Calls, NEW t \in Threads, Opening(t)
  PROVE  Types' /\ Mutex' /\ Calls'
<1>. DEFINE h == call[t].h
            found == ctxMap[handle[h].path]
<1>. USE NoneAssumption
<1>1. /\ call[t].step = "opening" /\ h \in Handles /\ handle[h].user = t
      /\ handle[h].path \in Paths /\ handle[h].path \in PathsOf[t]
      /\ handle[h].state = "opening" /\ global = t
      /\ found \in Contents \cup {None}
  BY DEF Opening, Calls, Mutex, Critical, Types
<1>2. ASSUME NEW c \in Contents \cup {None}, OpenFails(t, c)
      PROVE  Types' /\ Mutex' /\ Calls'
  <2>1. /\ call' \in [Threads -> CallRecords] /\ call'[t].step = "idle"
        /\ \A u \in Threads : call'[u].h = call[u].h
        /\ \A u \in Threads : u # t => call'[u] = call[u]
    BY <1>2, GoIs DEF OpenFails, Steps
  <2>2. /\ handle' \in [Handles -> HandleRecords]
        /\ handle'[h].state = "failed"
        /\ handle'[h].user = handle[h].user /\ handle'[h].path = handle[h].path
        /\ \A k \in Handles : k # h => handle'[k] = handle[k]
    BY <1>1, <1>2, HandleIs DEF OpenFails
  <2>3. Types'
    BY <1>2, <2>1, <2>2 DEF OpenFails, Opening, Types
  <2>4. Mutex'
    BY <1>1, <1>2, <2>1 DEF OpenFails, Mutex, Critical
  <2>5. Calls'
    <3>1. \A u \in Threads : u # t /\ call[u].step # "idle" =>
            call[u].h \in Handles /\ call[u].h # h
      BY <1>1 DEF Calls
    <3>2. ASSUME NEW u \in Threads, call'[u].step # "idle"
          PROVE  /\ u # t /\ call'[u] = call[u]
                 /\ handle'[call[u].h] = handle[call[u].h]
      BY <2>1, <2>2, <3>1, <3>2
    <3>3. \A k \in Handles : handle'[k].state # "closed" =>
            /\ handle[k].state # "closed"
            /\ handle'[k].user = handle[k].user /\ handle'[k].path = handle[k].path
      BY <1>1, <2>2
    <3>4. \A k \in Handles : handle'[k].state = "open" => handle'[k] = handle[k]
      BY <2>2
    <3>. QED
      BY <3>2, <3>3, <3>4 DEF Calls
  <2>. QED
    BY <2>3, <2>4, <2>5
<1>3. ASSUME NEW c \in Contents, AfterOpen(t),
             handle' = [handle EXCEPT ![h].state = "open", ![h].ctx = c],
             content' \in [Contents -> ContentRecords],
             ctxMap' \in [Paths -> Contents \cup {None}]
      PROVE  Types' /\ Mutex' /\ Calls'
  <2>1. PICK step \in {"clearing", "idle"} :
          Go(t, step) /\ global' = (IF step = "idle" THEN None ELSE global)
    BY <1>3 DEF AfterOpen
  <2>2. /\ call' \in [Threads -> CallRecords] /\ call'[t].step = step
        /\ \A u \in Threads : call'[u].h = call[u].h
        /\ \A u \in Threads : u # t => call'[u] = call[u]
    BY <2>1, GoIs DEF Steps
  <2>3. /\ handle' \in [Handles -> HandleRecords]
        /\ handle'[h].state = "open" /\ handle'[h].ctx = c
        /\ handle'[h].user = handle[h].user /\ handle'[h].path = handle[h].path
        /\ \A k \in Handles : k # h => handle'[k] = handle[k]
    BY <1>1, <1>3, HandleIs
  <2>4. Types'
    BY <1>3, <2>1, <2>2, <2>3 DEF Opening, Types
  <2>5. Mutex'
    BY <1>1, <2>1, <2>2 DEF Mutex, Critical
  <2>6. Calls'
    BY <1>1, <2>2, <2>3 DEF Calls
  <2>. QED
    BY <2>4, <2>5, <2>6
<1>4. CASE found # None
  <2>1. found \in Contents /\ OpenExisting(t, found)
    BY <1>1, <1>4 DEF Opening, OpenPulse
  <2>2. CASE call[t].mode = "create"
    BY <1>2, <2>1, <2>2 DEF OpenExisting
  <2>3. CASE call[t].mode # "create"
    <3>. HIDE DEF found
    <3>1. content' = [content EXCEPT ![found].refs = @ + 1] /\ ctxMap' = ctxMap
      BY <2>1, <2>3 DEF OpenExisting
    <3>2. content[found] \in ContentRecords /\ content \in [Contents -> ContentRecords]
      BY <2>1 DEF Types
    <3>3. [content[found] EXCEPT !.refs = @ + 1] \in ContentRecords
      BY <3>2 DEF ContentRecords
    <3>4. content' \in [Contents -> ContentRecords]
      BY <3>1, <3>2, <3>3
    <3>. QED
      BY <1>3, <2>1, <2>3, <3>1, <3>4 DEF OpenExisting, Types
  <2>. QED
    BY <2>2, <2>3
<1>5. CASE found = None /\ call[t].mode = "open"
  BY <1>2, <1>5 DEF Opening, OpenPulse
<1>6. CASE found = None /\ call[t].mode # "open"
  <2>1. PICK c \in Contents : OpenNew(t, c)
    BY <1>6 DEF Opening, OpenPulse
  <2>2. content' \in [Contents -> ContentRecords]
    <3>1. [Freed EXCEPT !.refs = 1, !.path = handle[h].path] \in ContentRecords
      <4>1. 1 \in Int
        OBVIOUS
      <4>. QED
        BY <1>1, <4>1, RecordTypes, NewIs, Zenon
    <3>. QED
      BY <2>1, <3>1 DEF OpenNew, Types
  <2>3. ctxMap' \in [Paths -> Contents \cup {None}]
    BY <1>1, <2>1 DEF OpenNew, Types
  <2>. QED
    BY <1>3, <2>1, <2>2, <2>3 DEF OpenNew
<1>. QED
  BY <1>4, <1>5, <1>6
-------------------------------------------------------------------------------
(***************************************************************************)
(* The other steps of a call.                                              *)
(***************************************************************************)
LEMMA BeginIs ==
  ASSUME Types, NEW t \in Threads, NEW step \in Steps, NEW h \in Handles, NEW mode \in Modes,
         Begin(t, step, h, mode)
  PROVE  /\ call[t].step = "idle"
         /\ call' \in [Threads -> CallRecords]
         /\ call'[t].step = step /\ call'[t].h = h
         /\ \A u \in Threads : u # t => call'[u] = call[u]
         /\ calls' \in [Threads -> 0..MaxCalls]
<1>1. calls[t] + 1 \in 0..MaxCalls
  BY MaxCallsAssumption DEF Begin, Types
<1>2. calls' \in [Threads -> 0..MaxCalls]
  BY <1>1 DEF Begin, Types
<1>3. [step |-> step, h |-> h, mode |-> mode] \in CallRecords
  BY DEF CallRecords
<1>. QED
  BY <1>2, <1>3 DEF Begin, Types

\* A thread starts openPulse() on a handle nobody uses.
LEMMA StartOpenTypes ==
  ASSUME Types, Mutex, Calls, NEW t \in Threads, NEW h \in Handles, NEW p \in PathsOf[t],
         NEW mode \in Modes, StartOpen(t, h, p, mode)
  PROVE  Types' /\ Mutex' /\ Calls'
<1>1. p \in Paths
  BY PathsOfAssumption
<1>2. /\ call[t].step = "idle" /\ call' \in [Threads -> CallRecords]
      /\ call'[t].step = "open" /\ call'[t].h = h
      /\ \A u \in Threads : u # t => call'[u] = call[u]
      /\ calls' \in [Threads -> 0..MaxCalls]
  BY BeginIs DEF StartOpen, Steps
<1>3. /\ handle' \in [Handles -> HandleRecords]
      /\ handle'[h].state = "opening" /\ handle'[h].user = t /\ handle'[h].path = p
      /\ \A k \in Handles : k # h => handle'[k] = handle[k]
  <2>1. ASSUME NEW x \in HandleRecords
        PROVE  LET y == [x EXCEPT !.user = t, !.path = p, !.state = "opening"]
               IN  /\ y \in HandleRecords
                   /\ y.state = "opening" /\ y.user = t /\ y.path = p
    BY <1>1 DEF HandleRecords
  <2>. QED
    <3>. DEFINE y == [Closed EXCEPT !.user = t, !.path = p, !.state = "opening"]
    <3>1. y \in HandleRecords /\ y.state = "opening" /\ y.user = t /\ y.path = p
      BY <2>1, RecordTypes
    <3>2. handle' = [handle EXCEPT ![h] = y]
      BY DEF StartOpen
    <3>. HIDE DEF y
    <3>. QED
      BY <3>1, <3>2 DEF Types
<1>4. Types'
  BY <1>2, <1>3 DEF StartOpen, Types
<1>5. Mutex'
  BY <1>2 DEF StartOpen, Mutex, Critical
<1>6. Calls'
  <2>1. ASSUME NEW u \in Threads, u # t, call[u].step # "idle" PROVE call[u].h # h
    <3>1. call[u].step \in Steps
      BY DEF Types, CallRecords
    <3>2. handle[h].state = "closed"
      BY DEF StartOpen
    <3>. QED
      BY <2>1, <3>1, <3>2 DEF Calls, Steps
  <2>2. handle'[h].state = "opening"
    BY <1>3
  <2>. QED
    BY <1>1, <1>2, <1>3, <2>1, <2>2 DEF Calls
<1>. QED
  BY <1>4, <1>5, <1>6

\* A thread starts a data call or the end of its handle.
LEMMA StartUseTypes ==
  ASSUME Types, Mutex, Calls, NEW t \in Threads, NEW h \in Handles,
         StartAccess(t, h) \/ StartDestroy(t, h)
  PROVE  Types' /\ Mutex' /\ Calls'
<1>. DEFINE step == IF StartAccess(t, h) THEN "access" ELSE "destroy"
<1>1. /\ handle[h].user = t /\ handle[h].state \in {"open", "failed"}
      /\ step = "access" => handle[h].state = "open"
      /\ Begin(t, step, h, "open")
      /\ UNCHANGED <<ctxMap, content, handle, global, wild>>
  BY DEF StartAccess, StartDestroy
<1>2. step \in {"access", "destroy"} /\ "open" \in Modes
  BY DEF Modes
<1>. HIDE DEF step
<1>3. /\ call[t].step = "idle" /\ call' \in [Threads -> CallRecords]
      /\ call'[t].step = step /\ call'[t].h = h
      /\ \A u \in Threads : u # t => call'[u] = call[u]
      /\ calls' \in [Threads -> 0..MaxCalls]
  BY <1>1, <1>2, BeginIs DEF Steps
<1>4. Types'
  BY <1>1, <1>3 DEF Types
<1>5. Mutex'
  BY <1>1, <1>2, <1>3 DEF Mutex, Critical
<1>6. Calls'
  BY <1>1, <1>2, <1>3 DEF Calls
<1>. QED
  BY <1>4, <1>5, <1>6

\* The global mutex is taken: this thread, and no other, is inside.
LEMMA TakeGlobalTypes ==
  ASSUME Types, Mutex, Calls, NEW t \in Threads, TakeGlobal(t)
  PROVE  Types' /\ Mutex' /\ Calls'
<1>. DEFINE step == IF call[t].step = "open" THEN "opening" ELSE "destroying"
<1>1. /\ call[t].step \in {"open", "destroy"} /\ global = None /\ global' = t
      /\ Go(t, step)
      /\ UNCHANGED <<ctxMap, content, handle, calls, wild>>
  BY DEF TakeGlobal
<1>2. /\ call[t].step = "open" => step = "opening"
      /\ call[t].step = "destroy" => step = "destroying"
  OBVIOUS
<1>. HIDE DEF step
<1>3. /\ call' \in [Threads -> CallRecords] /\ call'[t].step = step
      /\ \A u \in Threads : call'[u].h = call[u].h
      /\ \A u \in Threads : u # t => call'[u] = call[u]
  BY <1>1, <1>2, GoIs DEF Steps
<1>4. Types'
  BY <1>1, <1>3 DEF Types
<1>5. Mutex'
  BY <1>1, <1>2, <1>3, NoneAssumption DEF Mutex, Critical
<1>6. Calls'
  BY <1>1, <1>2, <1>3 DEF Calls
<1>. QED
  BY <1>4, <1>5, <1>6

\* The steps that work on the content of a handle.
LEMMA AtContentTypes ==
  ASSUME Types, Mutex, Calls, NEW t \in Threads, ClearContent(t) \/ Access(t)
  PROVE  Types' /\ Mutex' /\ Calls'
<1>. DEFINE c == handle[call[t].h].ctx
<1>1. /\ call[t].step \in {"clearing", "access"}
      /\ call[t].step = "clearing" => global' = None
      /\ call[t].step = "access" => global' = global
      /\ Go(t, "idle")
      /\ UNCHANGED <<ctxMap, handle, calls>>
      /\ content' \in {content, [content EXCEPT ![c] = Unlock(Lock(@, t), t)]}
      /\ wild' \in BOOLEAN
  BY DEF ClearContent, Access, Types
<1>2. /\ call' \in [Threads -> CallRecords] /\ call'[t].step = "idle"
      /\ \A u \in Threads : u # t => call'[u] = call[u]
  BY <1>1, GoIs DEF Steps
<1>3. c \in Contents
  BY <1>1 DEF Calls
<1>4. content' \in [Contents -> ContentRecords]
  <2>1. content[c] \in ContentRecords
    BY <1>3 DEF Types
  <2>. HIDE DEF c
  <2>2. Unlock(Lock(content[c], t), t) \in ContentRecords
    BY <2>1, UnlockIs
  <2>. QED
    BY <1>1, <2>2 DEF Types
<1>5. Types'
  BY <1>1, <1>2, <1>4 DEF Types
<1>6. Mutex'
  BY <1>1, <1>2, NoneAssumption DEF Mutex, Critical
<1>7. Calls'
  <2>1. handle' = handle /\ \A u \in Threads : call'[u].step # "idle" => call'[u] = call[u]
    BY <1>1, <1>2
  <2>. HIDE DEF c
  <2>. QED
    BY <2>1 DEF Calls
<1>. QED
  BY <1>5, <1>6, <1>7

\* The destructor frees the content and gives the global mutex back.
LEMMA DestroyTypes ==
  ASSUME Types, Mutex, Calls, NEW t \in Threads, Destroy(t)
  PROVE  Types' /\ Mutex' /\ Calls'
<1>. DEFINE h == call[t].h
            c == handle[h].ctx
<1>1. /\ call[t].step = "destroying" /\ h \in Handles /\ handle[h].user = t
      /\ global' = None /\ Go(t, "idle") /\ calls' = calls
      /\ handle' = [handle EXCEPT ![h] = Closed]
  BY DEF Destroy, Calls
<1>2. /\ call' \in [Threads -> CallRecords] /\ call'[t].step = "idle"
      /\ \A u \in Threads : u # t => call'[u] = call[u]
  BY <1>1, GoIs DEF Steps
<1>3. /\ handle' \in [Handles -> HandleRecords]
      /\ handle'[h].state = "closed"
      /\ \A k \in Handles : k # h => handle'[k] = handle[k]
  BY <1>1, RecordTypes DEF Types
<1>4. /\ content' \in [Contents -> ContentRecords]
      /\ ctxMap' \in [Paths -> Contents \cup {None}]
      /\ wild' \in BOOLEAN
  BY RecordTypes DEF Destroy, Types
<1>5. Types'
  BY <1>1, <1>2, <1>3, <1>4 DEF Types
<1>6. Mutex'
  BY <1>1, <1>2, NoneAssumption DEF Mutex, Critical
<1>7. Calls'
  BY <1>1, <1>2, <1>3 DEF Calls
<1>. QED
  BY <1>5, <1>6, <1>7

\* Every step keeps the types, the mutual exclusion and the calls.
LEMMA NextTypes == Types /\ Mutex /\ Calls /\ [Next]_vars => Types' /\ Mutex' /\ Calls'
<1>. SUFFICES ASSUME Types, Mutex, Calls, [Next]_vars
              PROVE  Types' /\ Mutex' /\ Calls'
  OBVIOUS
<1>1. CASE UNCHANGED vars
  BY <1>1 DEF vars, Types, Mutex, Calls
<1>2. ASSUME NEW t \in Threads, NEW h \in Handles, NEW p \in PathsOf[t], NEW mode \in Modes,
             StartOpen(t, h, p, mode)
      PROVE  Types' /\ Mutex' /\ Calls'
  BY <1>2, StartOpenTypes
<1>3. ASSUME NEW t \in Threads, NEW h \in Handles, StartAccess(t, h) \/ StartDestroy(t, h)
      PROVE  Types' /\ Mutex' /\ Calls'
  BY <1>3, StartUseTypes
<1>4. ASSUME NEW t \in Threads, Proceed(t)
      PROVE  Types' /\ Mutex' /\ Calls'
  BY <1>4, TakeGlobalTypes, OpeningTypes, AtContentTypes, DestroyTypes DEF Proceed
<1>. QED
  BY <1>1, <1>2, <1>3, <1>4 DEF Next

(***************************************************************************)
(* Types, and the critical sections of the global mutex: openPulse() and   *)
(* the destructor exclude each other whatever the threads do.              *)
(***************************************************************************)
THEOREM EntriesTyped == Spec => []TypeOK
<1>1. Types /\ Mutex /\ Calls => TypeOK
  BY DEF Types, Mutex, TypeOK, Critical, ContentRecords, HandleRecords, CallRecords
<1>. QED
  BY <1>1, InitTypes, NextTypes, PTL DEF Spec
-------------------------------------------------------------------------------
(***************************************************************************)
(* The registry, for threads on paths of their own.                        *)
(***************************************************************************)
OwnPathsOnly == \A t, u \in Threads : t # u => PathsOf[t] \cap PathsOf[u] = {}

Typed == Types /\ Mutex /\ Calls /\ Types' /\ Mutex' /\ Calls'

\* A step that leaves the registry, the names and the handles alone keeps it.
LEMMA UntouchedRegistry ==
  ASSUME Typed, Registry, UNCHANGED <<ctxMap, handle, wild>>,
         \A c \in Contents : content'[c].path = content[c].path,
         \A t \in Threads : call'[t].step \in {"destroy", "destroying"} =>
           /\ call'[t].h = call[t].h
           /\ call[t].step \in {"destroy", "destroying"}
  PROVE  Registry'
BY DEF Typed, Types, Calls, Registry, Live, Others

\* A call that is under way is on a handle of its own thread.
LEMMA CallHandle ==
  ASSUME Types, Calls, NEW t \in Threads, call[t].step # "idle"
  PROVE  call[t].h \in Handles /\ handle[call[t].h].user = t
BY DEF Types, Calls

\* The steps that open an entry: another thread's last handle stays the last one.
LEMMA OpenedRegistry ==
  ASSUME Typed, Registry, OwnPathsOnly, NEW t \in Threads, NEW c \in Contents,
         NEW p \in PathsOf[t],
         call[t].step = "opening",
         handle[call[t].h].path = p,
         handle' = [handle EXCEPT ![call[t].h].state = "open", ![call[t].h].ctx = c],
         wild' = wild,
         content'[c].path = p, ctxMap'[p] = c,
         ctxMap[p] \in {None, c}, Live(c) => ctxMap[p] = c,
         \A d \in Contents : d # c => content'[d].path = content[d].path,
         \A q \in Paths : q # p => ctxMap'[q] = ctxMap[q],
         call'[t].step \in {"clearing", "idle"},
         \A u \in Threads : u # t => call'[u] = call[u]
  PROVE  Registry'
<1>. DEFINE h == call[t].h
<1>1. h \in Handles /\ handle[h].user = t /\ p \in Paths /\ handle[h].state = "opening"
  BY PathsOfAssumption DEF Typed, Calls
<1>2. /\ handle'[h].state = "open" /\ handle'[h].ctx = c /\ handle'[h].path = p
      /\ \A k \in Handles : k # h => handle'[k] = handle[k]
  BY <1>1, HandleIs DEF Typed
<1>3. \A k \in Handles : handle[k].state = "open" =>
        handle[k].ctx \in Contents /\ Live(handle[k].ctx)
        /\ content[handle[k].ctx].path = handle[k].path
  BY DEF Registry, Typed, Calls
<1>4. content'[c].path # None
  BY <1>1, NoneAssumption
<1>6. None \notin Contents /\ c # None
  BY NoneAssumption
<1>7. ASSUME NEW d \in Contents, content'[d].path # None
      PROVE  content'[d].path \in Paths /\ ctxMap'[content'[d].path] = d
  <2>1. CASE d = c
    BY <1>1, <2>1
  <2>2. CASE d # c
    <3>1. content'[d].path = content[d].path /\ Live(d)
      BY <1>7, <2>2 DEF Live
    <3>2. content[d].path \in Paths /\ ctxMap[content[d].path] = d
      BY <3>1 DEF Registry
    <3>3. content[d].path # p
      BY <1>6, <2>2, <3>2
    <3>. QED
      BY <3>1, <3>2, <3>3
  <2>. QED
    BY <2>1, <2>2
<1>8. ASSUME NEW q \in Paths, ctxMap'[q] # None
      PROVE  content'[ctxMap'[q]].path # None /\ content'[ctxMap'[q]].path = q
  <2>1. CASE q = p
    BY <1>4, <2>1
  <2>2. CASE q # p
    <3>. DEFINE d == ctxMap[q]
    <3>1. ctxMap'[q] = d /\ d \in Contents /\ Live(d) /\ content[d].path = q
      BY <1>8, <2>2 DEF Registry, Typed, Types
    <3>2. d # c
      <4>1. Live(c) => content[c].path = p
        BY <1>1, <1>6 DEF Registry
      <4>. QED
        BY <2>2, <3>1, <4>1
    <3>3. content'[d].path = content[d].path
      BY <3>1, <3>2
    <3>. QED
      BY <3>1, <3>3 DEF Live
  <2>. QED
    BY <2>1, <2>2
<1>9. Live(c) => content[c].path = p
  BY <1>1, <1>6 DEF Registry
<1>10. ASSUME NEW k \in Handles, handle'[k].state = "open"
       PROVE  content'[handle'[k].ctx].path # None /\ content'[handle'[k].ctx].path = handle'[k].path
  <2>1. CASE k = h
    BY <1>2, <1>4, <2>1
  <2>2. CASE k # h
    <3>. DEFINE d == handle[k].ctx
    <3>1. handle'[k] = handle[k]
      BY <1>2, <2>2
    <3>2. d \in Contents /\ Live(d) /\ content[d].path = handle[k].path
      BY <1>3, <1>10, <3>1
    <3>3. content'[d].path = content[d].path
      BY <1>9, <3>2
    <3>. QED
      BY <3>1, <3>2, <3>3 DEF Live
  <2>. QED
    BY <2>1, <2>2
<1>11. ASSUME NEW u \in Threads, call'[u].step \in {"destroy", "destroying"}
      PROVE  /\ handle'[call'[u].h].state = "open"
              /\ \A m \in Handles : m # call'[u].h /\ handle'[m].state = "open" =>
                   handle'[m].ctx # handle'[call'[u].h].ctx
  <2>. DEFINE k == call[u].h
  <2>1. u # t /\ call'[u] = call[u]
    BY <1>11
  <2>2. k \in Handles /\ handle[k].user = u /\ handle[k].state = "open" /\ Others(k) = {}
    BY <1>11, <2>1, CallHandle DEF Registry, Typed
  <2>3. handle[k].path # p
    <3>1. handle[k].path \in PathsOf[u]
      BY <2>2 DEF Typed, Calls
    <3>2. PathsOf[u] \cap PathsOf[t] = {}
      BY <2>1 DEF OwnPathsOnly
    <3>. QED
      BY <3>1, <3>2
  <2>4. handle[k].ctx # c
    <3>1. handle[k].ctx = c => content[c].path = handle[k].path /\ Live(c)
      BY <1>3, <2>2
    <3>. QED
      BY <1>9, <2>3, <3>1
  <2>5. k # h
    BY <1>1, <2>2
  <2>6. handle'[k] = handle[k]
    BY <1>2, <2>2, <2>5
  <2>7. ASSUME NEW m \in Handles, m # k, handle'[m].state = "open"
        PROVE  handle'[m].ctx # handle[k].ctx
    <3>1. CASE m = h
      BY <1>2, <2>4, <3>1
    <3>2. CASE m # h
      <4>1. handle[m].state = "open" /\ handle'[m] = handle[m]
        BY <1>2, <2>7, <3>2
      <4>. QED
        BY <2>2, <2>7, <4>1 DEF Others
    <3>. QED
      BY <3>1, <3>2
  <2>. QED
    BY <2>1, <2>2, <2>6, <2>7
<1>12. (\A d \in Contents : Live(d) =>
          content[d].path \in Paths /\ ctxMap[content[d].path] = d)'
  BY <1>7 DEF Live
<1>13. (\A q \in Paths : ctxMap[q] # None =>
          Live(ctxMap[q]) /\ content[ctxMap[q]].path = q)'
  BY <1>8 DEF Live
<1>14. (\A k \in Handles : handle[k].state = "open" =>
          Live(handle[k].ctx) /\ content[handle[k].ctx].path = handle[k].path)'
  BY <1>10 DEF Live
<1>15. (\A u \in Threads : call[u].step \in {"destroy", "destroying"} =>
          handle[call[u].h].state = "open" /\ Others(call[u].h) = {})'
  BY <1>11 DEF Others
<1>16. ~wild'
  BY DEF Registry
<1>. QED
  BY <1>12, <1>13, <1>14, <1>15, <1>16 DEF Registry

-------------------------------------------------------------------------------
\* openPulse() registers what it makes, and counts on what it finds.
LEMMA OpeningRegistry ==
  ASSUME Typed, Registry, OwnPathsOnly, NEW t \in Threads, Opening(t)
  PROVE  Registry'
<1>. DEFINE h == call[t].h
            p == handle[h].path
<1>1. /\ call[t].step = "opening" /\ h \in Handles /\ p \in Paths /\ p \in PathsOf[t]
      /\ handle[h].state = "opening" /\ handle[h].user = t /\ wild' = wild
  BY DEF Opening, Typed, Calls
<1>2. None \notin Contents
  BY NoneAssumption
<1>3. ASSUME NEW c, OpenFails(t, c)
      PROVE  Registry'
  <2>1. /\ call'[t].step = "idle"
        /\ \A u \in Threads : u # t => call'[u] = call[u]
    BY <1>3, GoIs DEF OpenFails, Steps, Typed
  <2>2. /\ handle'[h].state = "failed"
        /\ \A k \in Handles : k # h => handle'[k] = handle[k]
    BY <1>1, <1>3 DEF OpenFails, Typed, Types, HandleRecords
  <2>3. \A u \in Threads : u # t /\ call[u].step # "idle" => call[u].h \in Handles \ {h}
    BY <1>1, CallHandle DEF Typed
  <2>4. content' = content /\ ctxMap' = ctxMap
    BY <1>3 DEF OpenFails
  <2>5. ASSUME NEW u \in Threads, call'[u].step \in {"destroy", "destroying"}
        PROVE  /\ handle'[call'[u].h].state = "open"
               /\ \A m \in Handles : m # call'[u].h /\ handle'[m].state = "open" =>
                    handle'[m].ctx # handle'[call'[u].h].ctx
    <3>1. u # t /\ call'[u] = call[u] /\ call[u].h \in Handles \ {h}
      BY <2>1, <2>3, <2>5
    <3>2. handle[call[u].h].state = "open" /\ Others(call[u].h) = {}
      BY <2>5, <3>1 DEF Registry
    <3>. QED
      BY <2>2, <3>1, <3>2 DEF Others
  <2>6. (\A u \in Threads : call[u].step \in {"destroy", "destroying"} =>
          handle[call[u].h].state = "open" /\ Others(call[u].h) = {})'
    BY <2>5 DEF Others
  <2>7. (\A k \in Handles : handle[k].state = "open" =>
          Live(handle[k].ctx) /\ content[handle[k].ctx].path = handle[k].path)'
    BY <2>2, <2>4 DEF Registry, Live
  <2>. QED
    BY <1>1, <2>4, <2>6, <2>7 DEF Registry, Live
<1>4. ASSUME NEW c \in Contents, AfterOpen(t)
      PROVE  /\ call'[t].step \in {"clearing", "idle"}
             /\ \A u \in Threads : u # t => call'[u] = call[u]
  BY <1>4, GoIs DEF AfterOpen, Steps, Typed
<1>5. CASE ctxMap[p] # None
  <2>. DEFINE c == ctxMap[p]
  <2>1. c \in Contents /\ content[c].path = p /\ OpenExisting(t, c)
    BY <1>1, <1>5 DEF Opening, OpenPulse, Registry, Typed, Types
  <2>. HIDE DEF c
  <2>2. CASE call[t].mode = "create"
    BY <1>3, <2>1, <2>2 DEF OpenExisting
  <2>3. CASE call[t].mode # "create"
    <3>1. /\ AfterOpen(t) /\ ctxMap' = ctxMap
          /\ handle' = [handle EXCEPT ![h].state = "open", ![h].ctx = c]
          /\ content' = [content EXCEPT ![c].refs = @ + 1]
      BY <2>1, <2>3, SMTT(30) DEF OpenExisting
    <3>2. content'[c].path = p /\ \A d \in Contents : d # c => content'[d].path = content[d].path
      BY <2>1, <3>1 DEF Typed, Types, ContentRecords
    <3>. QED
      BY <1>1, <1>4, <2>1, <3>1, <3>2, OpenedRegistry DEF c
  <2>. QED
    BY <2>2, <2>3
<1>6. CASE ctxMap[p] = None /\ call[t].mode = "open"
  BY <1>3, <1>6 DEF Opening, OpenPulse
<1>7. CASE ctxMap[p] = None /\ call[t].mode # "open"
  <2>1. PICK c \in Contents : OpenNew(t, c)
    BY <1>7 DEF Opening, OpenPulse
  <2>2. /\ AfterOpen(t) /\ ~Live(c)
        /\ handle' = [handle EXCEPT ![h].state = "open", ![h].ctx = c]
        /\ ctxMap' = [ctxMap EXCEPT ![p] = c]
        /\ content' = [content EXCEPT ![c] = [Freed EXCEPT !.refs = 1, !.path = p]]
    BY <2>1 DEF OpenNew
  <2>3. 1 \in Int
    OBVIOUS
  <2>4. [Freed EXCEPT !.refs = 1, !.path = p].path = p
    BY <1>1, <2>3, RecordTypes, NewIs, Zenon
  <2>5. content'[c].path = p /\ \A d \in Contents : d # c => content'[d].path = content[d].path
    BY <2>2, <2>4 DEF Typed, Types
  <2>6. ctxMap'[p] = c /\ \A q \in Paths : q # p => ctxMap'[q] = ctxMap[q]
    BY <1>1, <2>2 DEF Typed, Types
  <2>. QED
    BY <1>1, <1>4, <1>7, <2>2, <2>5, <2>6, OpenedRegistry
<1>. QED
  BY <1>5, <1>6, <1>7
-------------------------------------------------------------------------------
\* A handle that starts to open has no content yet.
LEMMA StartOpenRegistry ==
  ASSUME Typed, Registry, NEW t \in Threads, NEW h \in Handles, NEW p \in PathsOf[t],
         NEW mode \in Modes, StartOpen(t, h, p, mode)
  PROVE  Registry'
<1>1. /\ call'[t].step = "open"
      /\ \A u \in Threads : u # t => call'[u] = call[u]
  BY BeginIs DEF StartOpen, Steps, Typed
<1>2. /\ handle'[h].state = "opening"
      /\ \A k \in Handles : k # h => handle'[k] = handle[k]
      /\ handle[h].state = "closed"
      /\ UNCHANGED <<ctxMap, content, wild>>
  BY RecordTypes DEF StartOpen, Typed, Types, HandleRecords, Closed
<1>3. ASSUME NEW u \in Threads, call'[u].step \in {"destroy", "destroying"}
      PROVE  /\ handle'[call'[u].h].state = "open"
             /\ \A m \in Handles : m # call'[u].h /\ handle'[m].state = "open" =>
                  handle'[m].ctx # handle'[call'[u].h].ctx
  <2>1. /\ u # t /\ call'[u] = call[u] /\ call[u].h \in Handles
        /\ handle[call[u].h].state = "open" /\ Others(call[u].h) = {}
    BY <1>1, <1>3, CallHandle DEF Registry, Typed
  <2>. QED
    BY <1>2, <2>1 DEF Others
<1>4. (\A u \in Threads : call[u].step \in {"destroy", "destroying"} =>
         handle[call[u].h].state = "open" /\ Others(call[u].h) = {})'
  BY <1>3 DEF Others
<1>5. (\A k \in Handles : handle[k].state = "open" =>
         Live(handle[k].ctx) /\ content[handle[k].ctx].path = handle[k].path)'
  BY <1>2 DEF Registry, Live
<1>. QED
  BY <1>2, <1>4, <1>5 DEF Registry, Live

\* No handle is ended while another one has its content.
LEMMA StartUseRegistry ==
  ASSUME Typed, Registry, ~CloseShared, ~EndFailed,
         NEW t \in Threads, NEW h \in Handles, StartAccess(t, h) \/ StartDestroy(t, h)
  PROVE  Registry'
<1>1. UNCHANGED <<ctxMap, content, handle, wild>>
  BY DEF StartAccess, StartDestroy
<1>2. CASE StartAccess(t, h)
  <2>1. /\ call'[t].step = "access"
        /\ \A u \in Threads : u # t => call'[u] = call[u]
    BY <1>2, BeginIs DEF StartAccess, Steps, Modes, Typed
  <2>2. \A u \in Threads : call'[u].step \in {"destroy", "destroying"} =>
          call'[u].h = call[u].h /\ call[u].step \in {"destroy", "destroying"}
    BY <2>1
  <2>. QED
    BY <1>1, <2>2, UntouchedRegistry
<1>3. CASE StartDestroy(t, h)
  <2>1. /\ call'[t].step = "destroy" /\ call'[t].h = h
        /\ \A u \in Threads : u # t => call'[u] = call[u]
    BY <1>3, BeginIs DEF StartDestroy, Steps, Modes, Typed
  <2>2. handle[h].state = "open" /\ Others(h) = {}
    BY <1>3 DEF StartDestroy
  <2>3. ASSUME NEW u \in Threads, call'[u].step \in {"destroy", "destroying"}
        PROVE  /\ handle'[call'[u].h].state = "open"
               /\ \A m \in Handles : m # call'[u].h /\ handle'[m].state = "open" =>
                    handle'[m].ctx # handle'[call'[u].h].ctx
    BY <1>1, <2>1, <2>2, <2>3 DEF Registry, Others
  <2>4. (\A u \in Threads : call[u].step \in {"destroy", "destroying"} =>
           handle[call[u].h].state = "open" /\ Others(call[u].h) = {})'
    BY <2>3 DEF Others
  <2>. QED
    BY <1>1, <2>4 DEF Registry, Live
<1>. QED
  BY <1>2, <1>3

\* Taking the global mutex changes no content and no registration.
LEMMA TakeGlobalRegistry ==
  ASSUME Typed, Registry, NEW t \in Threads, TakeGlobal(t)
  PROVE  Registry'
<1>. DEFINE step == IF call[t].step = "open" THEN "opening" ELSE "destroying"
<1>1. /\ call[t].step \in {"open", "destroy"} /\ Go(t, step)
      /\ UNCHANGED <<ctxMap, content, handle, wild>>
  BY DEF TakeGlobal
<1>2. step \in Steps /\ (step = "destroying" => call[t].step = "destroy")
  BY <1>1 DEF Steps
<1>. HIDE DEF step
<1>3. /\ call'[t].step = step
      /\ \A u \in Threads : call'[u].h = call[u].h
      /\ \A u \in Threads : u # t => call'[u] = call[u]
  BY <1>1, <1>2, GoIs DEF Typed
<1>4. step \in {"opening", "destroying"}
  BY DEF step
<1>5. \A u \in Threads : call'[u].step \in {"destroy", "destroying"} =>
        call'[u].h = call[u].h /\ call[u].step \in {"destroy", "destroying"}
  BY <1>2, <1>3, <1>4
<1>. QED
  BY <1>1, <1>5, UntouchedRegistry

\* Working on a content leaves it registered.
LEMMA AtContentRegistry ==
  ASSUME Typed, Registry, NEW t \in Threads, ClearContent(t) \/ Access(t)
  PROVE  Registry'
<1>. DEFINE c == handle[call[t].h].ctx
<1>1. /\ call[t].step \in {"clearing", "access"} /\ Go(t, "idle")
      /\ UNCHANGED <<ctxMap, handle>>
      /\ content' \in {content, [content EXCEPT ![c] = Unlock(Lock(@, t), t)]}
  BY DEF ClearContent, Access
<1>2. /\ call'[t].step = "idle"
      /\ \A u \in Threads : u # t => call'[u] = call[u]
  BY <1>1, GoIs DEF Steps, Typed
<1>3. c \in Contents /\ Live(c)
  BY <1>1 DEF Typed, Calls, Registry
<1>4. wild' = wild
  BY <1>1, <1>3 DEF ClearContent, Access, Registry, Typed, Types
<1>5. content[c] \in ContentRecords
  BY <1>3 DEF Typed, Types
<1>. HIDE DEF c
<1>6. Unlock(Lock(content[c], t), t).path = content[c].path
  BY <1>5, UnlockIs
<1>7. \A d \in Contents : content'[d].path = content[d].path
  BY <1>1, <1>6 DEF Typed, Types
<1>8. \A u \in Threads : call'[u].step \in {"destroy", "destroying"} =>
        call'[u].h = call[u].h /\ call[u].step \in {"destroy", "destroying"}
  BY <1>2
<1>. QED
  BY <1>1, <1>4, <1>7, <1>8, UntouchedRegistry

(***************************************************************************)
(* The destructor takes the content out of the registry, and no handle     *)
(* that stays open had it.                                                 *)
(***************************************************************************)
LEMMA DestroyRegistry ==
  ASSUME Typed, Registry, NEW t \in Threads, Destroy(t)
  PROVE  Registry'
<1>. DEFINE h == call[t].h
<1>1. /\ call[t].step = "destroying" /\ h \in Handles /\ handle[h].user = t
      /\ handle[h].state = "open" /\ Others(h) = {}
      /\ Go(t, "idle") /\ handle' = [handle EXCEPT ![h] = Closed]
  BY DEF Destroy, Typed, Calls, Registry
<1>2. PICK c \in Contents : c = handle[h].ctx
  BY <1>1 DEF Typed, Calls
<1>3. PICK p \in Paths : p = content[c].path /\ ctxMap[p] = c
  BY <1>1, <1>2 DEF Registry
<1>4. Live(c) /\ c # None
  BY <1>1, <1>2, NoneAssumption DEF Registry
<1>5. /\ ctxMap' = [ctxMap EXCEPT ![p] = None]
      /\ content' = [content EXCEPT ![c] = Freed]
      /\ wild' = wild
  BY <1>2, <1>3, <1>4 DEF Destroy
<1>6. /\ content'[c].path = None
      /\ \A d \in Contents : d # c => content'[d].path = content[d].path
      /\ ctxMap'[p] = None
      /\ \A q \in Paths : q # p => ctxMap'[q] = ctxMap[q]
  BY <1>3, <1>5, RecordTypes DEF Typed, Types
<1>7. /\ handle'[h].state = "closed"
      /\ \A k \in Handles : k # h => handle'[k] = handle[k]
  BY <1>1, RecordTypes DEF Typed, Types
<1>8. /\ call'[t].step = "idle"
      /\ \A u \in Threads : u # t => call'[u] = call[u]
  BY <1>1, GoIs DEF Steps, Typed
<1>9. ASSUME NEW d \in Contents, content'[d].path # None
      PROVE  content'[d].path \in Paths /\ ctxMap'[content'[d].path] = d
  <2>1. d # c /\ content'[d].path = content[d].path
    BY <1>6, <1>9
  <2>2. content[d].path \in Paths /\ ctxMap[content[d].path] = d
    BY <1>9, <2>1 DEF Registry, Live
  <2>3. content[d].path # p
    BY <1>3, <2>1, <2>2
  <2>. QED
    BY <1>6, <2>1, <2>2, <2>3
<1>10. ASSUME NEW q \in Paths, ctxMap'[q] # None
       PROVE  content'[ctxMap'[q]].path # None /\ content'[ctxMap'[q]].path = q
  <2>. DEFINE d == ctxMap[q]
  <2>1. q # p /\ ctxMap'[q] = d
    BY <1>6, <1>10
  <2>2. d \in Contents /\ Live(d) /\ content[d].path = q
    BY <1>10, <2>1 DEF Registry, Typed, Types
  <2>3. d # c
    BY <1>3, <2>1, <2>2
  <2>. QED
    BY <1>6, <2>1, <2>2, <2>3 DEF Live
<1>11. ASSUME NEW k \in Handles, handle'[k].state = "open"
       PROVE  /\ content'[handle'[k].ctx].path # None
              /\ content'[handle'[k].ctx].path = handle'[k].path
  <2>. DEFINE d == handle[k].ctx
  <2>1. k # h /\ handle'[k] = handle[k]
    BY <1>7, <1>11
  <2>2. d \in Contents /\ Live(d) /\ content[d].path = handle[k].path
    BY <1>11, <2>1 DEF Registry, Typed, Calls
  <2>3. d # c
    BY <1>1, <1>2, <1>11, <2>1 DEF Others
  <2>. QED
    BY <1>6, <2>1, <2>2, <2>3 DEF Live
<1>12. ASSUME NEW u \in Threads, call'[u].step \in {"destroy", "destroying"}
       PROVE  /\ handle'[call'[u].h].state = "open"
              /\ \A m \in Handles : m # call'[u].h /\ handle'[m].state = "open" =>
                   handle'[m].ctx # handle'[call'[u].h].ctx
  <2>1. u # t /\ call'[u] = call[u]
    BY <1>8, <1>12
  <2>2. /\ call[u].h \in Handles /\ handle[call[u].h].user = u
        /\ handle[call[u].h].state = "open" /\ Others(call[u].h) = {}
    BY <1>12, <2>1, CallHandle DEF Registry, Typed
  <2>3. call[u].h # h
    BY <1>1, <2>1, <2>2
  <2>. QED
    BY <1>7, <2>1, <2>2, <2>3 DEF Others
<1>13. (\A d \in Contents : Live(d) =>
          content[d].path \in Paths /\ ctxMap[content[d].path] = d)'
  BY <1>9 DEF Live
<1>14. (\A q \in Paths : ctxMap[q] # None =>
          Live(ctxMap[q]) /\ content[ctxMap[q]].path = q)'
  BY <1>10 DEF Live
<1>15. (\A k \in Handles : handle[k].state = "open" =>
          Live(handle[k].ctx) /\ content[handle[k].ctx].path = handle[k].path)'
  BY <1>11 DEF Live
<1>16. (\A u \in Threads : call[u].step \in {"destroy", "destroying"} =>
          handle[call[u].h].state = "open" /\ Others(call[u].h) = {})'
  BY <1>12 DEF Others
<1>. QED
  BY <1>5, <1>13, <1>14, <1>15, <1>16 DEF Registry

-------------------------------------------------------------------------------
IInv == Types /\ Mutex /\ Calls /\ Registry

\* At first nothing is registered and no content exists.
LEMMA InitRegistry == Init => Registry
BY RecordTypes DEF Init, Registry, Live

\* Every step keeps the registry in accord with the open handles.
LEMMA NextRegistry ==
  ASSUME OwnPathsOnly, ~CloseShared, ~EndFailed, IInv, [Next]_vars
  PROVE  IInv'
<1>1. Types' /\ Mutex' /\ Calls'
  BY NextTypes DEF IInv
<1>2. Typed /\ Registry
  BY <1>1 DEF IInv, Typed
<1>3. CASE UNCHANGED vars
  BY <1>2, <1>3, UntouchedRegistry, <1>1 DEF vars, IInv
<1>4. ASSUME NEW t \in Threads, NEW h \in Handles, NEW p \in PathsOf[t], NEW mode \in Modes,
             StartOpen(t, h, p, mode)
      PROVE  Registry'
  BY <1>2, <1>4, StartOpenRegistry
<1>5. ASSUME NEW t \in Threads, NEW h \in Handles, StartAccess(t, h) \/ StartDestroy(t, h)
      PROVE  Registry'
  BY <1>2, <1>5, StartUseRegistry
<1>6. ASSUME NEW t \in Threads, Proceed(t)
      PROVE  Registry'
  BY <1>2, <1>6, TakeGlobalRegistry, OpeningRegistry, AtContentRegistry, DestroyRegistry
  DEF Proceed
<1>. QED
  BY <1>1, <1>3, <1>4, <1>5, <1>6 DEF IInv, Next

(***************************************************************************)
(* Threads that keep to paths of their own, and close an entry only when   *)
(* no other handle has it: an open handle has the content registered for   *)
(* its path, and no freed content is ever used.                            *)
(***************************************************************************)
THEOREM OpenIsRegistered ==
  ASSUME OwnPathsOnly, ~CloseShared, ~EndFailed
  PROVE  Spec => []OpenMeansRegistered
<1>1. Init => IInv
  BY InitTypes, InitRegistry DEF IInv
<1>2. IInv /\ [Next]_vars => IInv'
  BY NextRegistry
<1>3. IInv => OpenMeansRegistered
  <2>1. ASSUME IInv, NEW h \in Handles, handle[h].state = "open"
        PROVE  Live(handle[h].ctx) /\ ctxMap[handle[h].path] = handle[h].ctx
    BY <2>1 DEF IInv, Registry, Calls
  <2>. QED
    BY <2>1 DEF IInv, Registry, OpenMeansRegistered
<1>. QED
  BY <1>1, <1>2, <1>3, PTL DEF Spec
-------------------------------------------------------------------------------
(***************************************************************************)
(* The references of a content, for finitely many entries.  The handles    *)
(* that have a content are named from a state of the handles, so that the  *)
(* ones before a step and the ones after it can be compared.               *)
(***************************************************************************)
Holders(handles, c) == {h \in Handles : handles[h].state = "open" /\ handles[h].ctx = c}

Counted == \A c \in Contents : Live(c) => content[c].refs = Cardinality(Holders(handle, c))

Accorded == Typed /\ Registry /\ Counted

\* A step that leaves names, references and open handles alone keeps the count.
LEMMA UntouchedCounted ==
  ASSUME Counted,
         \A c \in Contents : Holders(handle', c) = Holders(handle, c),
         \A c \in Contents : content'[c].path # None =>
           content'[c].path = content[c].path /\ content'[c].refs = content[c].refs
  PROVE  Counted'
<1>1. ASSUME NEW c \in Contents, content'[c].path # None
      PROVE  content'[c].refs = Cardinality(Holders(handle', c))
  <2>1. /\ Live(c) /\ content'[c].refs = content[c].refs
        /\ Holders(handle', c) = Holders(handle, c)
    BY <1>1 DEF Live
  <2>. QED
    BY <2>1 DEF Counted
<1>. QED
  BY <1>1 DEF Counted, Live

\* A handle that was not open and is not opened changes no count.
LEMMA NotOpened ==
  ASSUME NEW h \in Handles, handle[h].state # "open", handle'[h].state # "open",
         \A k \in Handles : k # h => handle'[k] = handle[k]
  PROVE  \A c : Holders(handle', c) = Holders(handle, c)
BY DEF Holders

\* A handle that is opened on a content is one more of its holders.
LEMMA HoldersOpened ==
  ASSUME NEW h \in Handles, NEW c \in Contents, handle[h].state # "open",
         handle'[h].state = "open", handle'[h].ctx = c,
         \A k \in Handles : k # h => handle'[k] = handle[k]
  PROVE  /\ h \notin Holders(handle, c)
         /\ Holders(handle', c) = Holders(handle, c) \cup {h}
         /\ \A d \in Contents : d # c => Holders(handle', d) = Holders(handle, d)
BY DEF Holders

\* Finitely many handles: a holder more is a reference more.
LEMMA OneMoreHolder ==
  ASSUME IsFiniteSet(Handles), NEW handles, NEW c, NEW h \in Handles, h \notin Holders(handles, c)
  PROVE  Cardinality(Holders(handles, c) \cup {h}) = Cardinality(Holders(handles, c)) + 1
<1>1. Holders(handles, c) \in SUBSET Handles
  BY DEF Holders
<1>2. IsFiniteSet(Holders(handles, c))
  BY <1>1, FS_Subset
<1>. QED
  BY <1>2, FS_AddElement

(***************************************************************************)
(* openPulse() counts the handle on the content it finds; the one it makes *)
(* has no other, and so starts with one reference.                         *)
(***************************************************************************)
LEMMA OpeningCounted ==
  ASSUME Accorded, IsFiniteSet(Handles), NEW t \in Threads, Opening(t)
  PROVE  Counted'
<1>. DEFINE h == call[t].h
            p == handle[h].path
<1>1. /\ call[t].step = "opening" /\ h \in Handles /\ p \in Paths
      /\ handle[h].state = "opening" /\ None \notin Contents
  BY NoneAssumption DEF Opening, Accorded, Typed, Calls
<1>2. Types /\ Registry /\ Counted
  BY DEF Accorded, Typed
<1>3. ASSUME NEW c \in Contents \cup {None}, OpenFails(t, c)
      PROVE  Counted'
  <2>1. /\ handle'[h].state = "failed"
        /\ \A k \in Handles : k # h => handle'[k] = handle[k]
    BY <1>1, <1>2, <1>3, HandleIs DEF OpenFails
  <2>2. content' = content
    BY <1>3 DEF OpenFails
  <2>3. \A c2 : Holders(handle', c2) = Holders(handle, c2)
    BY <1>1, <2>1, NotOpened
  <2>. QED
    BY <1>2, <2>2, <2>3, UntouchedCounted
<1>4. ASSUME NEW c \in Contents,
             handle' = [handle EXCEPT ![h].state = "open", ![h].ctx = c]
      PROVE  /\ h \notin Holders(handle, c)
             /\ Holders(handle', c) = Holders(handle, c) \cup {h}
             /\ \A d \in Contents : d # c => Holders(handle', d) = Holders(handle, d)
  <2>1. /\ handle'[h].state = "open" /\ handle'[h].ctx = c
        /\ \A k \in Handles : k # h => handle'[k] = handle[k]
    BY <1>1, <1>2, <1>4, HandleIs
  <2>. QED
    BY <1>1, <2>1, HoldersOpened
<1>5. ASSUME NEW c \in Contents,
             handle' = [handle EXCEPT ![h].state = "open", ![h].ctx = c],
             content'[c].refs = Cardinality(Holders(handle, c)) + 1,
             \A d \in Contents : d # c => content'[d] = content[d]
      PROVE  Counted'
  <2>1. ASSUME NEW d \in Contents, content'[d].path # None
        PROVE  content'[d].refs = Cardinality(Holders(handle', d))
    <3>1. CASE d = c
      <4>1. Cardinality(Holders(handle, c) \cup {h}) = Cardinality(Holders(handle, c)) + 1
        BY <1>1, <1>4, <1>5, OneMoreHolder
      <4>. QED
        BY <1>4, <1>5, <3>1, <4>1
    <3>2. CASE d # c
      <4>1. content'[d] = content[d] /\ Holders(handle', d) = Holders(handle, d)
        BY <1>4, <1>5, <3>2
      <4>. QED
        BY <1>2, <2>1, <4>1 DEF Counted, Live
    <3>. QED
      BY <3>1, <3>2
  <2>. QED
    BY <2>1 DEF Counted, Live
<1>6. CASE ctxMap[p] # None
  <2>. DEFINE c == ctxMap[p]
  <2>1. c \in Contents /\ Live(c) /\ OpenExisting(t, c)
    BY <1>1, <1>2, <1>6 DEF Opening, OpenPulse, Registry, Types
  <2>. HIDE DEF c
  <2>2. CASE call[t].mode = "create"
    BY <1>3, <2>1, <2>2 DEF OpenExisting
  <2>3. CASE call[t].mode # "create"
    <3>1. /\ handle' = [handle EXCEPT ![h].state = "open", ![h].ctx = c]
          /\ content' = [content EXCEPT ![c].refs = @ + 1]
      BY <2>1, <2>3 DEF OpenExisting
    <3>2. /\ content'[c].refs = content[c].refs + 1
          /\ \A d \in Contents : d # c => content'[d] = content[d]
      BY <1>2, <2>1, <3>1 DEF Types, ContentRecords
    <3>3. content'[c].refs = Cardinality(Holders(handle, c)) + 1
      BY <1>2, <2>1, <3>2 DEF Counted
    <3>. QED
      BY <1>5, <2>1, <3>1, <3>2, <3>3
  <2>. QED
    BY <2>2, <2>3
<1>7. CASE ctxMap[p] = None /\ call[t].mode = "open"
  BY <1>3, <1>7 DEF Opening, OpenPulse
<1>8. CASE ctxMap[p] = None /\ call[t].mode # "open"
  <2>1. PICK c \in Contents : OpenNew(t, c)
    BY <1>8 DEF Opening, OpenPulse
  <2>2. /\ ~Live(c)
        /\ handle' = [handle EXCEPT ![h].state = "open", ![h].ctx = c]
        /\ content' = [content EXCEPT ![c] = [Freed EXCEPT !.refs = 1, !.path = p]]
    BY <2>1 DEF OpenNew
  <2>3. Holders(handle, c) = {}
    BY <1>2, <2>2 DEF Registry, Holders
  <2>4. [Freed EXCEPT !.refs = 1, !.path = p].refs = 1
    BY DEF Freed
  <2>5. /\ content'[c].refs = 1
        /\ \A d \in Contents : d # c => content'[d] = content[d]
    BY <1>2, <2>2, <2>4 DEF Types
  <2>6. content'[c].refs = Cardinality(Holders(handle, c)) + 1
    BY <2>3, <2>5, FS_EmptySet
  <2>. QED
    BY <1>5, <2>2, <2>5, <2>6
<1>. QED
  BY <1>6, <1>7, <1>8

\* openPulse() frees nothing: a content keeps its name, and a new one has one.
LEMMA OpeningNames ==
  ASSUME Types, Calls, NEW t \in Threads, Opening(t), NEW d \in Contents, Live(d)
  PROVE  content'[d].path # None
<1>. DEFINE p == handle[call[t].h].path
            found == ctxMap[p]
<1>1. p \in Paths /\ found \in Contents \cup {None} /\ p # None
  BY NoneAssumption DEF Opening, Types, Calls
<1>2. CASE content' = content
  BY <1>2 DEF Live
<1>3. CASE found # None /\ content' = [content EXCEPT ![found].refs = @ + 1]
  <2>1. content'[d].path = content[d].path
    BY <1>1, <1>3 DEF Types, ContentRecords
  <2>. QED
    BY <2>1 DEF Live
<1>4. ASSUME NEW c \in Contents, OpenNew(t, c)
      PROVE  content'[d].path # None
  <2>1. d # c /\ content' = [content EXCEPT ![c] = [Freed EXCEPT !.refs = 1, !.path = p]]
    BY <1>4 DEF OpenNew
  <2>2. content'[d] = content[d]
    BY <2>1 DEF Types
  <2>. QED
    BY <2>2 DEF Live
<1>. QED
  BY <1>2, <1>3, <1>4 DEF Opening, OpenPulse, OpenExisting, OpenFails

\* A handle that starts to open is not open yet.
LEMMA StartOpenCounted ==
  ASSUME Accorded, NEW t \in Threads, NEW h \in Handles, NEW p \in PathsOf[t], NEW mode \in Modes,
         StartOpen(t, h, p, mode)
  PROVE  Counted'
<1>1. /\ handle[h].state = "closed" /\ handle'[h].state = "opening"
      /\ \A k \in Handles : k # h => handle'[k] = handle[k]
      /\ content' = content
  BY RecordTypes DEF StartOpen, Accorded, Typed, Types, HandleRecords, Closed
<1>2. \A c : Holders(handle', c) = Holders(handle, c)
  BY <1>1, NotOpened
<1>. QED
  BY <1>1, <1>2, UntouchedCounted DEF Accorded

\* Working on a content keeps its name and its references.
LEMMA AtContentKeeps ==
  ASSUME Types, Calls, NEW t \in Threads, ClearContent(t) \/ Access(t)
  PROVE  /\ handle' = handle
         /\ \A d \in Contents :
              content'[d].path = content[d].path /\ content'[d].refs = content[d].refs
<1>. DEFINE c == handle[call[t].h].ctx
<1>1. /\ handle' = handle
      /\ content' \in {content, [content EXCEPT ![c] = Unlock(Lock(@, t), t)]}
      /\ call[t].step \in {"clearing", "access"}
  BY DEF ClearContent, Access
<1>2. c \in Contents
  BY <1>1 DEF Calls
<1>3. content[c] \in ContentRecords
  BY <1>2 DEF Types
<1>. HIDE DEF c
<1>4. /\ Unlock(Lock(content[c], t), t).path = content[c].path
      /\ Unlock(Lock(content[c], t), t).refs = content[c].refs
  BY <1>3, UnlockIs
<1>. QED
  BY <1>1, <1>4 DEF Types

(***************************************************************************)
(* The destructor frees the content of the last handle that had it, and    *)
(* touches the count of no other content.                                  *)
(***************************************************************************)
LEMMA DestroyCounted ==
  ASSUME Accorded, NEW t \in Threads, Destroy(t)
  PROVE  Counted'
<1>. DEFINE h == call[t].h
<1>1. Types /\ Registry /\ Counted /\ Calls
  BY DEF Accorded, Typed
<1>2. /\ h \in Handles /\ handle[h].state = "open" /\ Others(h) = {}
      /\ handle' = [handle EXCEPT ![h] = Closed]
  BY <1>1 DEF Destroy, Calls, Registry
<1>3. PICK c \in Contents : c = handle[h].ctx
  BY <1>1, <1>2 DEF Calls
<1>4. Live(c) /\ c # None
  BY <1>1, <1>2, <1>3, NoneAssumption DEF Registry
<1>5. content' = [content EXCEPT ![c] = Freed]
  BY <1>3, <1>4 DEF Destroy
<1>6. content'[c].path = None /\ \A d \in Contents : d # c => content'[d] = content[d]
  BY <1>1, <1>5, RecordTypes DEF Types
<1>7. /\ handle'[h].state = "closed"
      /\ \A k \in Handles : k # h => handle'[k] = handle[k]
  BY <1>1, <1>2, RecordTypes DEF Types
<1>8. \A d \in Contents : d # c => Holders(handle', d) = Holders(handle, d)
  BY <1>2, <1>3, <1>7 DEF Holders
<1>9. ASSUME NEW d \in Contents, content'[d].path # None
      PROVE  content'[d].refs = Cardinality(Holders(handle', d))
  <2>1. d # c
    BY <1>6, <1>9
  <2>2. content'[d] = content[d] /\ Holders(handle', d) = Holders(handle, d)
    BY <1>6, <1>8, <2>1
  <2>. QED
    BY <1>1, <1>9, <2>2 DEF Counted, Live
<1>. QED
  BY <1>9 DEF Counted, Live

CInv == IInv /\ Counted

\* Every step keeps the count.
LEMMA NextCounted ==
  ASSUME IsFiniteSet(Handles), OwnPathsOnly, ~CloseShared, ~EndFailed, CInv, [Next]_vars
  PROVE  CInv'
<1>. SUFFICES Counted'
  BY NextRegistry DEF CInv
<1>1. IInv' /\ IInv /\ Counted
  BY NextRegistry DEF CInv
<1>2. Accorded /\ Types /\ Calls
  BY <1>1 DEF IInv, Accorded, Typed
<1>3. ASSUME handle' = handle, \A c \in Contents : content'[c].path = content[c].path
                                                  /\ content'[c].refs = content[c].refs
      PROVE  Counted'
  BY <1>1, <1>3, UntouchedCounted
<1>4. CASE UNCHANGED vars
  BY <1>3, <1>4 DEF vars
<1>5. ASSUME NEW t \in Threads, NEW h \in Handles, NEW p \in PathsOf[t], NEW mode \in Modes,
             StartOpen(t, h, p, mode)
      PROVE  Counted'
  BY <1>2, <1>5, StartOpenCounted
<1>6. ASSUME NEW t \in Threads, NEW h \in Handles, StartAccess(t, h) \/ StartDestroy(t, h)
      PROVE  Counted'
  <2>1. handle' = handle /\ content' = content
    BY <1>6 DEF StartAccess, StartDestroy
  <2>. QED
    BY <1>3, <2>1
<1>7. ASSUME NEW t \in Threads, Proceed(t)
      PROVE  Counted'
  <2>1. CASE TakeGlobal(t)
    <3>1. handle' = handle /\ content' = content
      BY <2>1 DEF TakeGlobal
    <3>. QED
      BY <1>3, <3>1
  <2>2. CASE ClearContent(t) \/ Access(t)
    <3>1. /\ handle' = handle
          /\ \A d \in Contents :
               content'[d].path = content[d].path /\ content'[d].refs = content[d].refs
      BY <1>2, <2>2, AtContentKeeps
    <3>. QED
      BY <1>3, <3>1
  <2>3. CASE Opening(t)
    BY <1>2, <2>3, OpeningCounted
  <2>4. CASE Destroy(t)
    BY <1>2, <2>4, DestroyCounted
  <2>. QED
    BY <1>7, <2>1, <2>2, <2>3, <2>4 DEF Proceed
<1>. QED
  BY <1>4, <1>5, <1>6, <1>7 DEF Next

\* At first no content exists.
LEMMA InitCounted == Init => CInv
<1>1. Init => IInv
  BY InitTypes, InitRegistry DEF IInv
<1>2. Init => Counted
  BY RecordTypes DEF Init, Counted, Live
<1>. QED
  BY <1>1, <1>2 DEF CInv

(***************************************************************************)
(* Under the same use, and for finitely many entries: refCount is the      *)
(* number of the handles that openPulse() gave the content to, and ctxMap  *)
(* has the live contents and nothing else.                                 *)
(***************************************************************************)
THEOREM ReferencesCounted ==
  ASSUME IsFiniteSet(Handles), OwnPathsOnly, ~CloseShared, ~EndFailed
  PROVE  Spec => []CountedAndRegistered
<1>1. CInv /\ [Next]_vars => CInv'
  BY NextCounted
<1>2. CInv => CountedAndRegistered
  BY DEF CInv, IInv, Registry, Counted, Holders, CountedAndRegistered
<1>. QED
  BY <1>1, <1>2, InitCounted, PTL DEF Spec

-------------------------------------------------------------------------------
(***************************************************************************)
(* Who has the mutex of a content: unlock() locks, so a thread that has    *)
(* worked on a content keeps it, and it must be one of the thread's paths. *)
(***************************************************************************)
Owned ==
  \A c \in Contents :
    content[c].path # None /\ content[c].owner # None =>
      content[c].path \in PathsOf[content[c].owner]

WInv == IInv /\ Owned

\* A content that keeps its name and owner, or has no owner yet, keeps Owned.
LEMMA UnownedOwned ==
  ASSUME Owned,
         \A c \in Contents :
           \/ content'[c].owner = None \/ content'[c].path = None
           \/ content'[c].path = content[c].path /\ content'[c].owner = content[c].owner
  PROVE  Owned'
BY DEF Owned

\* Working on a content makes the thread its owner.
LEMMA UnlockOwns ==
  ASSUME NEW x \in ContentRecords, NEW t \in Threads
  PROVE  Unlock(Lock(x, t), t).owner = t
<1>1. ASSUME NEW y \in ContentRecords, NEW n \in Nat
      PROVE  [y EXCEPT !.owner = t, !.depth = n].owner = t
  BY DEF ContentRecords
<1>2. Lock(x, t) \in ContentRecords
  BY LockIs
<1>3. Lock(x, t).depth + 1 \in Nat
  BY <1>2 DEF ContentRecords
<1>. HIDE DEF Lock
<1>4. [Lock(x, t) EXCEPT !.owner = t, !.depth = Lock(x, t).depth + 1].owner = t
  BY <1>1, <1>2, <1>3
<1>. QED
  BY <1>4 DEF Unlock, Lock

\* The content a thread works on has a path of the thread.
LEMMA AtContentOwned ==
  ASSUME IInv, Owned, NEW t \in Threads, ClearContent(t) \/ Access(t)
  PROVE  Owned'
<1>. DEFINE h == call[t].h
            c == handle[h].ctx
<1>1. /\ content' \in {content, [content EXCEPT ![c] = Unlock(Lock(@, t), t)]}
      /\ call[t].step \in {"clearing", "access"}
  BY DEF ClearContent, Access
<1>2. /\ h \in Handles /\ handle[h].user = t /\ handle[h].state = "open"
      /\ c \in Contents
  BY <1>1 DEF IInv, Calls
<1>3. content[c].path \in PathsOf[t]
  BY <1>2 DEF IInv, Calls, Registry
<1>4. content[c] \in ContentRecords
  BY <1>2 DEF IInv, Types
<1>. HIDE DEF c
<1>5. /\ Unlock(Lock(content[c], t), t).path = content[c].path
      /\ Unlock(Lock(content[c], t), t).owner = t
  BY <1>4, UnlockIs, UnlockOwns
<1>6. CASE content' = content
  BY <1>6 DEF Owned
<1>7. CASE content' = [content EXCEPT ![c] = Unlock(Lock(@, t), t)]
  <2>1. /\ content'[c].path = content[c].path /\ content'[c].owner = t
        /\ \A d \in Contents : d # c => content'[d] = content[d]
    BY <1>2, <1>5, <1>7 DEF IInv, Types
  <2>. QED
    BY <1>3, <2>1 DEF Owned
<1>. QED
  BY <1>1, <1>6, <1>7

\* openPulse() gives no mutex away: it counts on a content, or makes one nobody has.
LEMMA OpeningOwned ==
  ASSUME IInv, Owned, NEW t \in Threads, Opening(t)
  PROVE  Owned'
<1>. DEFINE p == handle[call[t].h].path
            found == ctxMap[p]
<1>1. p \in Paths /\ found \in Contents \cup {None}
  BY DEF Opening, IInv, Types, Calls
<1>2. CASE content' = content
  BY <1>2 DEF Owned
<1>3. CASE found # None /\ content' = [content EXCEPT ![found].refs = @ + 1]
  <2>1. \A c \in Contents :
          content'[c].path = content[c].path /\ content'[c].owner = content[c].owner
    BY <1>1, <1>3 DEF IInv, Types, ContentRecords
  <2>. QED
    BY <2>1, UnownedOwned
<1>4. ASSUME NEW c \in Contents, OpenNew(t, c)
      PROVE  Owned'
  <2>1. content' = [content EXCEPT ![c] = [Freed EXCEPT !.refs = 1, !.path = p]]
    BY <1>4 DEF OpenNew
  <2>2. [Freed EXCEPT !.refs = 1, !.path = p].owner = None
    BY DEF Freed
  <2>3. content'[c].owner = None /\ \A d \in Contents : d # c => content'[d] = content[d]
    BY <2>1, <2>2 DEF IInv, Types
  <2>. QED
    BY <2>3, UnownedOwned
<1>. QED
  BY <1>2, <1>3, <1>4 DEF Opening, OpenPulse, OpenExisting, OpenFails

\* Every step keeps the mutexes with threads that may have them.
LEMMA NextOwned ==
  ASSUME OwnPathsOnly, ~CloseShared, ~EndFailed, WInv, [Next]_vars
  PROVE  WInv'
<1>1. IInv /\ Owned /\ IInv'
  BY NextRegistry DEF WInv
<1>2. CASE content' = content
  BY <1>1, <1>2 DEF Owned, WInv
<1>3. ASSUME NEW t \in Threads, Destroy(t)
      PROVE  Owned'
  <2>1. content' = content \/ \E c \in Contents \cup {None} : content' = [content EXCEPT ![c] = Freed]
    BY <1>1, <1>3 DEF Destroy, IInv, Types, Calls, HandleRecords
  <2>2. Freed.owner = None
    BY DEF Freed
  <2>3. \A d \in Contents : content'[d].owner = None \/ content'[d] = content[d]
    BY <1>1, <2>1, <2>2 DEF IInv, Types
  <2>. QED
    BY <1>1, <2>3, UnownedOwned
<1>4. ASSUME NEW t \in Threads, Proceed(t)
      PROVE  Owned' \/ content' = content
  BY <1>1, <1>3, <1>4, OpeningOwned, AtContentOwned DEF Proceed, TakeGlobal
<1>5. CASE UNCHANGED vars
  BY <1>2, <1>5 DEF vars
<1>. QED
  BY <1>1, <1>2, <1>4, <1>5 DEF Next, StartOpen, StartAccess, StartDestroy, WInv

(***************************************************************************)
(* Under the same use no wait is for good: no thread ever waits for the    *)
(* mutex of a content, and the global mutex is with a thread that runs.    *)
(***************************************************************************)
THEOREM NobodyWaitsForGood ==
  ASSUME OwnPathsOnly, ~CloseShared, ~EndFailed
  PROVE  Spec => []WaitsEnd
<1>1. Init => WInv
  <2>1. Init => IInv
    BY InitTypes, InitRegistry DEF IInv
  <2>2. Init => Owned
    BY RecordTypes DEF Init, Owned
  <2>. QED
    BY <2>1, <2>2 DEF WInv
<1>2. WInv /\ [Next]_vars => WInv'
  BY NextOwned
<1>3. WInv => WaitsEnd
  <2>. SUFFICES ASSUME WInv, NEW t \in Threads
                PROVE  /\ ~WaitsForContent(t)
                       /\ WaitsForGlobal(t) =>
                            /\ global \in Threads
                            /\ call[global].step \in {"opening", "clearing", "destroying"}
    BY DEF WaitsEnd
  <2>1. ~WaitsForContent(t)
    <3>. SUFFICES ASSUME call[t].step \in {"clearing", "access"}
                  PROVE  MayLock(handle[call[t].h].ctx, t)
      BY DEF WaitsForContent
    <3>. DEFINE h == call[t].h
                c == handle[h].ctx
    <3>1. /\ h \in Handles /\ handle[h].user = t /\ handle[h].state = "open"
          /\ c \in Contents
      BY DEF WInv, IInv, Calls
    <3>2. content[c].path \in PathsOf[t] /\ content[c].path # None
      BY <3>1 DEF WInv, IInv, Calls, Registry, Live
    <3>3. content[c].owner \in Threads \cup {None}
      BY <3>1 DEF WInv, IInv, Types, ContentRecords
    <3>4. content[c].owner # None => content[c].path \in PathsOf[content[c].owner]
      BY <3>1, <3>2 DEF WInv, Owned
    <3>5. content[c].owner \in {None, t}
      BY <3>2, <3>3, <3>4 DEF OwnPathsOnly
    <3>. QED
      BY <3>5 DEF MayLock
  <2>2. ASSUME WaitsForGlobal(t)
        PROVE  /\ global \in Threads
               /\ call[global].step \in {"opening", "clearing", "destroying"}
    BY <2>2 DEF WaitsForGlobal, WInv, IInv, Types, Mutex, Critical
  <2>. QED
    BY <2>1, <2>2
<1>. QED
  BY <1>1, <1>2, <1>3, PTL DEF Spec
===============================================================================
